---------------------------- MODULE Spec2Model ----------------------------
(***************************************************************************)
(* Model of the ST7789 panel drivers of the ESP32-C6 1.47" LCD firmware.   *)
(*                                                                         *)
(*   Arduino:  class ST7789Display (Display_ST7789.cpp).  Every method is  *)
(*             straight-line code over the GPIO / SPI / LEDC / delay       *)
(*             primitives, so a method is modelled by the sequence of      *)
(*             primitive calls it makes (its trace) and the hardware by    *)
(*             the effect of such a sequence on pins, bus and PWM.         *)
(*   ESP-IDF:  st7789_init / st7789_backlight_set (ST7789.c), where every  *)
(*             vendor call may fail; a call's outcome is an input.         *)
(***************************************************************************)
EXTENDS Integers, Sequences, FiniteSets, TLC

VARIABLES
    cfg,          \* ST7789Display: the configuration members (_width, ...)
    initialized,  \* ST7789Display::_initialized
    pinModes,     \* GPIO direction of cs / dc / rst
    pinLevels,    \* GPIO output latch of cs / dc / rst
    spiDepth,     \* SPI transactions begun and not yet ended
    ledcDuty,     \* duty last written to the backlight PWM, -1 before any
    trace,        \* primitive calls made by the last public operation
    lastCall,     \* the last public operation and its arguments
    ret,          \* what the last public operation returned
    dev,          \* ESP-IDF: st7789_device_t
    idfDuty,      \* ESP-IDF: LEDC channel duty (set, and latched by update)
    idfCalls,     \* ESP-IDF: vendor calls made by the last operation
    idfLast,      \* ESP-IDF: the last operation, its arguments and result
    lvDrv,        \* LVGL driver: lvgl_driver_t
    lvHeap,       \* LVGL driver: acquisitions and releases of each resource
    lvInits,      \* LVGL driver: lvgl_driver_init calls made so far
    lvCalls,      \* LVGL driver: library calls made by the last operation
    lvLast,       \* LVGL driver: the last operation, its arguments and result
    img,          \* image path: the last showImage, its PNG and its draws
    BLE_NUM,      \* wireless: devices counted by the legacy GAP callback
    WIFI_NUM,     \* wireless: access points, stored by WIFI_Init
    Scan_finish,  \* wireless: both scans are over
    WiFi_Scan_Finish,
    BLE_Scan_Finish,
    legacy_devices,  \* wireless: addresses in legacy_devices[0..num-1]
    wifiTask,     \* wireless: position and locals of the WiFi task
    bleTask,      \* wireless: position of the BLE task
    uiTimer,      \* UI: position of the timer callback and what it shows
    bleAir,       \* BLE devices in range and those reported so far
    s_rgb_state,  \* RGB: s_rgb_state.is_running
    s_effect_task_handle,
    rgbTasks,     \* RGB: the effect tasks created, by handle
    rgbCaller,    \* RGB: position of the task calling RGB_Example / RGB_Stop
    rgbLed        \* RGB: the LED, lit by an effect or cleared

varsDisplay == <<cfg, initialized, pinModes, pinLevels, spiDepth, ledcDuty,
                 trace, lastCall, ret>>
varsIdf == <<dev, idfDuty, idfCalls, idfLast>>
varsLvgl == <<lvDrv, lvHeap, lvInits, lvCalls, lvLast>>
varsWireless == <<BLE_NUM, WIFI_NUM, Scan_finish, WiFi_Scan_Finish, BLE_Scan_Finish,
                  legacy_devices, wifiTask, bleTask, uiTimer, bleAir>>
varsRgb == <<s_rgb_state, s_effect_task_handle, rgbTasks, rgbCaller, rgbLed>>
varsTasks == <<varsWireless, varsRgb>>
varsDrivers == <<varsDisplay, varsIdf, varsLvgl, img>>
vars == <<cfg, initialized, pinModes, pinLevels, spiDepth, ledcDuty,
          trace, lastCall, ret, dev, idfDuty, idfCalls, idfLast,
          lvDrv, lvHeap, lvInits, lvCalls, lvLast, img,
          BLE_NUM, WIFI_NUM, Scan_finish, WiFi_Scan_Finish, BLE_Scan_Finish,
          legacy_devices, wifiTask, bleTask, uiTimer, bleAir,
          s_rgb_state, s_effect_task_handle, rgbTasks, rgbCaller, rgbLed>>

(***************************************************************************)
(* Bounds of the model.                                                    *)
(***************************************************************************)
\* Largest side, in pixels, of a rectangle handed to drawPixelBuffer.
MaxDrawSide == 2
\* Pixels a caller's buffer may hold beyond the rectangle's size.
MaxSpare == 1
\* Vendor calls that may return an error during one ESP-IDF operation.
MaxFaults == 1

(***************************************************************************)
(* Integer helpers.                                                        *)
(***************************************************************************)
RECURSIVE Pow2(_)
Pow2(n) == IF n = 0 THEN 1 ELSE 2 * Pow2(n - 1)
U8(v) == v % 256
U16(v) == v % 65536

(***************************************************************************)
(* Primitive calls.  One record shape for all of them:                     *)
(*   k     the primitive                                                   *)
(*   pin   the pin it acts on ("-" when none)                              *)
(*   lvl   the level written ("-" when none)                               *)
(*   v     its numeric argument (byte, milliseconds, duty, resolution)     *)
(*   data  the bytes of a bulk transfer (<<>> otherwise)                   *)
(***************************************************************************)
Ev(k, pin, lvl, v, data) ==
    [k |-> k, pin |-> pin, lvl |-> lvl, v |-> v, data |-> data]

PinMode(pin) == Ev("pinMode", pin, "-", 0, <<>>)
DigitalWrite(pin, lvl) == Ev("digitalWrite", pin, lvl, 0, <<>>)
\* Mutant of Delay: a delay lasts half as long as asked.
Delay_halved(ms) == Ev("delay", "-", "-", ms \div 2, <<>>)

Delay(ms) == Ev("delay", "-", "-", ms, <<>>)
LedcAttach(freq, res) == Ev("ledcAttach", "bl", "-", res, <<freq>>)
LedcWrite(duty) == Ev("ledcWrite", "bl", "-", duty, <<>>)
SpiBegin == Ev("spiBegin", "-", "-", 0, <<>>)
BeginTransaction == Ev("beginTransaction", "-", "-", 0, <<>>)
EndTransaction == Ev("endTransaction", "-", "-", 0, <<>>)
Transfer(byte) == Ev("transfer", "-", "-", byte, <<>>)
TransferBytes(bytes) == Ev("transferBytes", "-", "-", Len(bytes), bytes)

(***************************************************************************)
(* Sequence helpers.                                                       *)
(***************************************************************************)
\* s repeated n times.
Repeat(s, n) == [i \in 1..(n * Len(s)) |-> s[((i - 1) % Len(s)) + 1]]
\* The concatenation of f[1], ..., f[n], each a sequence.
RECURSIVE Flatten(_)
Flatten(ss) == IF ss = <<>> THEN <<>> ELSE Head(ss) \o Flatten(Tail(ss))
\* The first numBytes bytes of a uint16_t array seen through a uint8_t
\* pointer, as on the little-endian RISC-V core: low byte, then high byte.
BufferBytes(buffer, numBytes) ==
    [i \in 1..numBytes |->
        IF i % 2 = 1 THEN buffer[(i + 1) \div 2] % 256
                     ELSE buffer[i \div 2] \div 256]

(***************************************************************************)
(* ST7789Display: configuration.                                           *)
(***************************************************************************)
LCD_WIDTH == 172
LCD_HEIGHT == 320
Offset_X == 34
Offset_Y == 0
Frequency == 1000
Resolution == 10

\* The default constructor's members, equal to ST7789Config::getDefault().
DefaultConfig ==
    [width |-> LCD_WIDTH, height |-> LCD_HEIGHT,
     offset_x |-> Offset_X, offset_y |-> Offset_Y, horizontal |-> TRUE,
     backlight_freq |-> Frequency, backlight_resolution |-> Resolution]

\* The PanelConfig invariant: offset + dimension stays inside the
\* controller's native 240 x 320 addressable range.
ValidConfig(c) ==
    /\ c.offset_x + c.width <= 240
    /\ c.offset_y + c.height <= 320

\* Configurations the constructor ST7789Display(const ST7789Config&) accepts:
\* it copies the members and validates nothing, so this set also holds one
\* configuration outside the native range.
Configs ==
    { DefaultConfig,
      [DefaultConfig EXCEPT !.width = 4, !.horizontal = FALSE],
      [DefaultConfig EXCEPT !.width = 3, !.height = 300, !.offset_y = 20],
      [DefaultConfig EXCEPT !.width = 3, !.height = 300, !.offset_y = 20,
                            !.horizontal = FALSE],
      [DefaultConfig EXCEPT !.width = 2, !.height = 2, !.offset_x = 0,
                            !.backlight_resolution = 8],
      [DefaultConfig EXCEPT !.width = 3, !.height = 310, !.offset_y = 20] }

(***************************************************************************)
(* ST7789Display: private hardware operations, as traces.                  *)
(***************************************************************************)
spiInit == <<SpiBegin>>

\* Mutant of writeCommand: chip-select is not released after the transfer.
writeCommand_csNotReleased(cmd) ==
    << BeginTransaction,
       DigitalWrite("cs", "LOW"),
       DigitalWrite("dc", "LOW"),
       Transfer(U8(cmd)),
       EndTransaction >>

writeCommand(cmd) ==
    << BeginTransaction,
       DigitalWrite("cs", "LOW"),
       DigitalWrite("dc", "LOW"),
       Transfer(U8(cmd)),
       DigitalWrite("cs", "HIGH"),
       EndTransaction >>

\* Mutant of writeData: the data/command line is left low.
writeData_dcLow(data) ==
    << BeginTransaction,
       DigitalWrite("cs", "LOW"),
       DigitalWrite("dc", "LOW"),
       Transfer(U8(data)),
       DigitalWrite("cs", "HIGH"),
       EndTransaction >>

\* The parameter is a uint8_t: the argument is converted modulo 256.
writeData(data) ==
    << BeginTransaction,
       DigitalWrite("cs", "LOW"),
       DigitalWrite("dc", "HIGH"),
       Transfer(U8(data)),
       DigitalWrite("cs", "HIGH"),
       EndTransaction >>

\* Mutant of writeDataBytes: chip-select goes low before the transaction.
writeDataBytes_csBeforeTransaction(bytes) ==
    << DigitalWrite("cs", "LOW"),
       BeginTransaction,
       DigitalWrite("dc", "HIGH"),
       TransferBytes(bytes),
       DigitalWrite("cs", "HIGH"),
       EndTransaction >>

writeDataBytes(bytes) ==
    << BeginTransaction,
       DigitalWrite("cs", "LOW"),
       DigitalWrite("dc", "HIGH"),
       TransferBytes(bytes),
       DigitalWrite("cs", "HIGH"),
       EndTransaction >>

\* Mutant of hardwareReset: reset is released after 10 ms.
hardwareReset_shortPulse ==
    << DigitalWrite("cs", "LOW"), Delay(50),
       DigitalWrite("rst", "LOW"), Delay(10),
       DigitalWrite("rst", "HIGH"), Delay(50) >>

hardwareReset ==
    << DigitalWrite("cs", "LOW"), Delay(50),
       DigitalWrite("rst", "LOW"), Delay(50),
       DigitalWrite("rst", "HIGH"), Delay(50) >>

\* writeCommand(cmd) followed by one writeData per parameter byte.
Reg(cmd, params) ==
    writeCommand(cmd) \o Flatten([i \in 1..Len(params) |-> writeData(params[i])])

initRegisters(c) ==
       writeCommand(\h11) \o <<Delay(120)>>
    \o Reg(\h36, IF c.horizontal THEN <<\h00>> ELSE <<\h70>>)
    \o Reg(\h3A, <<\h05>>)
    \o Reg(\hB0, <<\h00, \hE8>>)
    \o Reg(\hB2, <<\h0C, \h0C, \h00, \h33, \h33>>)
    \o Reg(\hB7, <<\h35>>)
    \o Reg(\hBB, <<\h35>>)
    \o Reg(\hC0, <<\h2C>>)
    \o Reg(\hC2, <<\h01>>)
    \o Reg(\hC3, <<\h13>>)
    \o Reg(\hC4, <<\h20>>)
    \o Reg(\hC6, <<\h0F>>)
    \o Reg(\hD0, <<\hA4, \hA1>>)
    \o Reg(\hD6, <<\hA1>>)
    \o Reg(\hE0, <<\hF0, \h00, \h04, \h04, \h04, \h05, \h29,
                   \h33, \h3E, \h38, \h12, \h12, \h28, \h30>>)
    \o Reg(\hE1, <<\hF0, \h07, \h0A, \h0D, \h0B, \h07, \h28,
                   \h33, \h3E, \h36, \h14, \h14, \h29, \h32>>)
    \o writeCommand(\h21)
    \o writeCommand(\h11) \o <<Delay(120)>>
    \o writeCommand(\h29)

backlightInit(c) ==
    << LedcAttach(c.backlight_freq, c.backlight_resolution), LedcWrite(100) >>

(***************************************************************************)
(* ST7789Display: public operations, as traces.                            *)
(***************************************************************************)
begin(c) ==
       << PinMode("cs"), PinMode("dc"), PinMode("rst") >>
    \o backlightInit(c)
    \o spiInit
    \o hardwareReset
    \o initRegisters(c)

\* Mutant of setWindow: each axis is sent with the other axis's offset.
setWindow_swappedOffsets(c, x1, y1, x2, y2) ==
    (IF c.horizontal
     THEN    writeCommand(\h2A)
          \o writeData(x1 \div 256) \o writeData(x1 + c.offset_y)
          \o writeData(x2 \div 256) \o writeData(x2 + c.offset_y)
          \o writeCommand(\h2B)
          \o writeData(y1 \div 256) \o writeData(y1 + c.offset_x)
          \o writeData(y2 \div 256) \o writeData(y2 + c.offset_x)
     ELSE    writeCommand(\h2A)
          \o writeData(y1 \div 256) \o writeData(y1 + c.offset_x)
          \o writeData(y2 \div 256) \o writeData(y2 + c.offset_x)
          \o writeCommand(\h2B)
          \o writeData(x1 \div 256) \o writeData(x1 + c.offset_y)
          \o writeData(x2 \div 256) \o writeData(x2 + c.offset_y))
    \o writeCommand(\h2C)

\* x1 >> 8 is the high byte of the coordinate alone; the low byte is the
\* sum coordinate + offset converted to uint8_t by writeData.
setWindow(c, x1, y1, x2, y2) ==
    (IF c.horizontal
     THEN    writeCommand(\h2A)
          \o writeData(x1 \div 256) \o writeData(x1 + c.offset_x)
          \o writeData(x2 \div 256) \o writeData(x2 + c.offset_x)
          \o writeCommand(\h2B)
          \o writeData(y1 \div 256) \o writeData(y1 + c.offset_y)
          \o writeData(y2 \div 256) \o writeData(y2 + c.offset_y)
     ELSE    writeCommand(\h2A)
          \o writeData(y1 \div 256) \o writeData(y1 + c.offset_y)
          \o writeData(y2 \div 256) \o writeData(y2 + c.offset_y)
          \o writeCommand(\h2B)
          \o writeData(x1 \div 256) \o writeData(x1 + c.offset_x)
          \o writeData(x2 \div 256) \o writeData(x2 + c.offset_x))
    \o writeCommand(\h2C)

\* Mutant of drawPixelBuffer: the byte count forgets sizeof(uint16_t).
drawPixelBuffer_pixelCount(c, x1, y1, x2, y2, buffer) ==
    LET width == U16(x2 - x1 + 1)
        height == U16(y2 - y1 + 1)
        numBytes == width * height
    IN  setWindow(c, x1, y1, x2, y2)
        \o writeDataBytes(BufferBytes(buffer, numBytes))

drawPixelBuffer(c, x1, y1, x2, y2, buffer) ==
    LET width == U16(x2 - x1 + 1)
        height == U16(y2 - y1 + 1)
        \* uint32_t: at most 172 * 320 * 2 here, far below 2^32
        numBytes == width * height * 2
    IN  setWindow(c, x1, y1, x2, y2)
        \o writeDataBytes(BufferBytes(buffer, numBytes))

\* Mutant of clearScreen: the fill loop stops one line early.
clearScreen_oneLineShort(c, color) ==
    LET lineBuffer == [i \in 1..c.width |-> color]
    IN  setWindow(c, 0, 0, U16(c.width - 1), U16(c.height - 1))
        \o Repeat(writeDataBytes(BufferBytes(lineBuffer, c.width * 2)), c.height - 1)

\* Mutant of clearScreen: the backlight is switched off while clearing.
clearScreen_dimsBacklight(c, color) ==
    LET lineBuffer == [i \in 1..c.width |-> color]
    IN  setWindow(c, 0, 0, U16(c.width - 1), U16(c.height - 1))
        \o <<LedcWrite(0)>>
        \o Repeat(writeDataBytes(BufferBytes(lineBuffer, c.width * 2)), c.height)

clearScreen(c, color) ==
    LET lineBuffer == [i \in 1..c.width |-> color]
    IN  setWindow(c, 0, 0, U16(c.width - 1), U16(c.height - 1))
        \o Repeat(writeDataBytes(BufferBytes(lineBuffer, c.width * 2)), c.height)

\* Mutant of setBacklight: the brightness is not clamped.
setBacklight_noClamp(brightness) ==
    << LedcWrite(brightness * 10) >>

\* Mutant of setBacklight: the duty is scaled to the 10-bit full scale.
setBacklight_fullScale(brightness) ==
    LET clamped == IF brightness > 100 THEN 100 ELSE brightness
    IN  << LedcWrite((clamped * 1023) \div 100) >>

setBacklight(brightness) ==
    LET clamped == IF brightness > 100 THEN 100 ELSE brightness
        duty == clamped * 10
    IN  << LedcWrite(duty) >>

(***************************************************************************)
(* The hardware: what a trace does to pins, bus and PWM.                   *)
(***************************************************************************)
Pins == {"cs", "dc", "rst"}

Count(tr, kind) == Cardinality({i \in 1..Len(tr) : tr[i].k = kind})

\* Index of the last call of the kind on the pin, 0 when there is none.
LastIndex(tr, kind, pin) ==
    LET Is(i) == tr[i].k = kind /\ tr[i].pin = pin
        S == {i \in 1..Len(tr) : Is(i)}
    IN  IF S = {} THEN 0
        ELSE CHOOSE i \in S : \A j \in (i + 1)..Len(tr) : ~Is(j)

ModesAfter(modes, tr) ==
    [p \in Pins |-> IF LastIndex(tr, "pinMode", p) > 0 THEN "OUTPUT" ELSE modes[p]]

LevelsAfter(levels, tr) ==
    [p \in Pins |->
        LET i == LastIndex(tr, "digitalWrite", p)
        IN  IF i > 0 THEN tr[i].lvl ELSE levels[p]]

DepthAfter(depth, tr) ==
    depth + Count(tr, "beginTransaction") - Count(tr, "endTransaction")

DutyAfter(duty, tr) ==
    LET i == LastIndex(tr, "ledcWrite", "bl")
    IN  IF i > 0 THEN tr[i].v ELSE duty

\* The hardware after the trace tr of a public operation has run.
Run(tr) ==
    /\ trace' = tr
    /\ pinModes' = ModesAfter(pinModes, tr)
    /\ pinLevels' = LevelsAfter(pinLevels, tr)
    /\ spiDepth' = DepthAfter(spiDepth, tr)
    /\ ledcDuty' = DutyAfter(ledcDuty, tr)

(***************************************************************************)
(* Inputs.                                                                 *)
(***************************************************************************)
\* In-bounds ranges lo <= hi of one axis: both ends of the axis, the
\* scenario of the specification (10..50, 20..60) and the values around the
\* byte boundary 255 | 256.
XRanges(c) ==
    {p \in {<<0, 0>>, <<10, 50>>, <<0, c.width - 1>>, <<c.width - 1, c.width - 1>>} :
        p[1] <= p[2] /\ p[2] < c.width}
YRanges(c) ==
    {p \in {<<0, 0>>, <<20, 60>>, <<250, 255>>, <<255, 256>>,
            <<256, c.height - 1>>, <<0, c.height - 1>>} :
        p[1] <= p[2] /\ p[2] < c.height}

\* In-bounds windows <<x1, y1, x2, y2>>, x1 <= x2, y1 <= y2.
Windows(c) ==
    {<<xr[1], yr[1], xr[2], yr[2]>> : xr \in XRanges(c), yr \in YRanges(c)}

\* In-bounds rectangles with sides of at most MaxDrawSide pixels.
DrawRects(c) ==
    {<<o[1], o[2], o[1] + w - 1, o[2] + h - 1>> :
        o \in {<<0, 0>>, <<1, 255>>}, w \in 1..MaxDrawSide, h \in 1..MaxDrawSide}
    \cap ((0..(c.width - 1)) \X (0..(c.height - 1)) \X
          (0..(c.width - 1)) \X (0..(c.height - 1)))

\* A caller's RGB565 buffer holding n pixels, each different from the one
\* before it, and possibly more pixels than the n of the rectangle.
Buffers(n) ==
    {[i \in 1..(n + spare) |-> U16(\hFEDC + 257 * (i - 1))] : spare \in {0, MaxSpare}}

Colors == {\hF800, \h1234}
Brightnesses == {0, 50, 100, 101, 255}

Call(name, w, buffer, v) ==
    [name |-> name, x1 |-> w[1], y1 |-> w[2], x2 |-> w[3], y2 |-> w[4],
     buffer |-> buffer, v |-> v]

(***************************************************************************)
(* ST7789Display: the state after construction, and the public operations. *)
(***************************************************************************)
InitDisplay(configs) ==
    /\ cfg \in configs
    /\ initialized = FALSE
    /\ pinModes = [p \in Pins |-> "INPUT"]
    /\ pinLevels = [p \in Pins |-> "LOW"]
    /\ spiDepth = 0
    /\ ledcDuty = -1
    /\ trace = <<>>
    /\ lastCall = Call("none", <<0, 0, 0, 0>>, <<>>, 0)
    /\ ret = "none"

Begin ==
    /\ Run(begin(cfg))
    /\ initialized' = TRUE
    /\ lastCall' = Call("begin", <<0, 0, 0, 0>>, <<>>, 0)
    /\ ret' = "true"
    /\ UNCHANGED <<cfg, varsIdf, varsLvgl, img, varsTasks>>

SetWindow ==
    \E w \in Windows(cfg) :
        /\ Run(setWindow(cfg, w[1], w[2], w[3], w[4]))
        /\ lastCall' = Call("setWindow", w, <<>>, 0)
        /\ ret' = "void"
        /\ UNCHANGED <<cfg, initialized, varsIdf, varsLvgl, img, varsTasks>>

DrawPixelBuffer ==
    \E r \in DrawRects(cfg) :
        \E buffer \in Buffers((r[3] - r[1] + 1) * (r[4] - r[2] + 1)) :
            /\ Run(drawPixelBuffer(cfg, r[1], r[2], r[3], r[4], buffer))
            /\ lastCall' = Call("drawPixelBuffer", r, buffer, 0)
            /\ ret' = "void"
            /\ UNCHANGED <<cfg, initialized, varsIdf, varsLvgl, img, varsTasks>>

ClearScreen ==
    \E color \in Colors :
        /\ Run(clearScreen(cfg, color))
        /\ lastCall' = Call("clearScreen", <<0, 0, 0, 0>>, <<>>, color)
        /\ ret' = "void"
        /\ UNCHANGED <<cfg, initialized, varsIdf, varsLvgl, img, varsTasks>>

SetBacklight ==
    \E brightness \in Brightnesses :
        /\ Run(setBacklight(brightness))
        /\ lastCall' = Call("setBacklight", <<0, 0, 0, 0>>, <<>>, brightness)
        /\ ret' = "void"
        /\ UNCHANGED <<cfg, initialized, varsIdf, varsLvgl, img, varsTasks>>

(***************************************************************************)
(* ESP-IDF driver (ST7789.c).  Every vendor call returns an esp_err_t that *)
(* the caller cannot predict: out[fn] is what the call fn returns when the *)
(* operation makes it.                                                     *)
(***************************************************************************)
BRIGHTNESS_SCALE_FACTOR == 81
BRIGHTNESS_MAX == 100
ST7789_BL_RESOLUTION == 13
ST7789_H_RES == 172
ST7789_V_RES == 320
ST7789_OFFSET_X == 34
ST7789_OFFSET_Y == 0
ST7789_BL_MAX_DUTY == Pow2(ST7789_BL_RESOLUTION) - 1

ErrCodes == {"ESP_OK", "ESP_FAIL", "ESP_ERR_INVALID_STATE"}

\* The vendor calls of st7789_init, in program order: panel IO, panel, GPIO
\* and LEDC.
PanelCalls ==
    << "esp_lcd_new_panel_io_spi", "esp_lcd_new_panel_st7789t",
       "esp_lcd_panel_reset", "esp_lcd_panel_init", "esp_lcd_panel_mirror",
       "esp_lcd_panel_disp_on_off" >>
BacklightInitCalls ==
    << "gpio_config", "ledc_timer_config", "ledc_channel_config",
       "ledc_fade_func_install" >>
DutyCalls == << "ledc_set_duty", "ledc_update_duty" >>
VendorCalls == PanelCalls \o BacklightInitCalls \o DutyCalls

Range(f) == {f[i] : i \in DOMAIN f}

\* Outcome assignments with at most MaxFaults calls returning an error.
Outcomes(calls) ==
    {out \in [Range(calls) -> ErrCodes] :
        Cardinality({fn \in Range(calls) : out[fn] # "ESP_OK"}) <= MaxFaults}

VCall(fn, arg, res) == [fn |-> fn, arg |-> arg, res |-> res]

\* What an operation yields: the device, the LEDC duty registers, the vendor
\* calls it made and its return value.
Result(d, duty, calls, r) == [dev |-> d, duty |-> duty, calls |-> calls, ret |-> r]

\* Mutant of brightness_to_duty: a scale factor that undershoots zero.
brightness_to_duty_steeper(brightness) ==
    IF brightness = 0 THEN 0
    ELSE LET b == IF brightness > BRIGHTNESS_MAX THEN BRIGHTNESS_MAX ELSE brightness
         IN  U16(ST7789_BL_MAX_DUTY - ((BRIGHTNESS_SCALE_FACTOR + 2) * (BRIGHTNESS_MAX - b)))

brightness_to_duty(brightness) ==
    IF brightness = 0 THEN 0
    ELSE LET b == IF brightness > BRIGHTNESS_MAX THEN BRIGHTNESS_MAX ELSE brightness
         IN  U16(ST7789_BL_MAX_DUTY - (BRIGHTNESS_SCALE_FACTOR * (BRIGHTNESS_MAX - b)))

\* backlight_set_duty on the backlight object bl; yields [dev |-> bl, ...].
backlight_set_duty(bl, duty, brightness, out) ==
    IF ~bl.is_initialized THEN Result(bl, duty, <<>>, "ESP_ERR_INVALID_STATE")
    ELSE
    LET b == IF brightness > BRIGHTNESS_MAX THEN BRIGHTNESS_MAX ELSE brightness
        d == brightness_to_duty(b)
        r1 == out["ledc_set_duty"]
        c1 == <<VCall("ledc_set_duty", d, r1)>>
        duty1 == IF r1 = "ESP_OK" THEN [duty EXCEPT !.pending = d] ELSE duty
    IN  IF r1 # "ESP_OK" THEN Result(bl, duty1, c1, r1)
        ELSE
        LET r2 == out["ledc_update_duty"]
            c2 == c1 \o <<VCall("ledc_update_duty", 0, r2)>>
            duty2 == IF r2 = "ESP_OK" THEN [duty1 EXCEPT !.active = duty1.pending]
                                      ELSE duty1
            bl2 == IF r2 = "ESP_OK" THEN [bl EXCEPT !.current_brightness = b] ELSE bl
        IN  Result(bl2, duty2, c2, r2)

st7789_backlight_set(d, duty, brightness, out) ==
    IF ~d.is_initialized THEN Result(d, duty, <<>>, "ESP_ERR_INVALID_STATE")
    ELSE IF ~d.backlight.is_initialized
    THEN Result(d, duty, <<>>, "ESP_ERR_INVALID_STATE")
    ELSE LET r == backlight_set_duty(d.backlight, duty, brightness, out)
         IN  Result([d EXCEPT !.backlight = r.dev], r.duty, r.calls, r.ret)

\* st7789_backlight_get: the recorded brightness, 0 without a backlight.
st7789_backlight_get(d) ==
    IF ~d.backlight.is_initialized THEN 0 ELSE d.backlight.current_brightness

\* Mutant of backlight_init: the result of ledc_timer_config is not checked.
backlight_init_timerUnchecked(bl, duty, out) ==
    LET r1 == out["gpio_config"]
        c1 == <<VCall("gpio_config", 0, r1)>>
    IN  IF r1 # "ESP_OK" THEN Result(bl, duty, c1, r1) ELSE
    LET r2 == out["ledc_timer_config"]
        c2 == c1 \o <<VCall("ledc_timer_config", 0, r2)>>
        r3 == out["ledc_channel_config"]
        c3 == c2 \o <<VCall("ledc_channel_config", 0, r3)>>
        duty3 == IF r3 = "ESP_OK" THEN [pending |-> 0, active |-> 0] ELSE duty
    IN  IF r3 # "ESP_OK" THEN Result(bl, duty3, c3, r3) ELSE
    LET r4 == out["ledc_fade_func_install"]
        c4 == c3 \o <<VCall("ledc_fade_func_install", 0, r4)>>
    IN  IF r4 # "ESP_OK" /\ r4 # "ESP_ERR_INVALID_STATE"
        THEN Result(bl, duty3, c4, r4)
        ELSE Result([bl EXCEPT !.current_brightness = 0, !.is_initialized = TRUE],
                    duty3, c4, "ESP_OK")

\* backlight_init on the backlight object bl; yields [dev |-> bl, ...].
backlight_init(bl, duty, out) ==
    LET r1 == out["gpio_config"]
        c1 == <<VCall("gpio_config", 0, r1)>>
    IN  IF r1 # "ESP_OK" THEN Result(bl, duty, c1, r1) ELSE
    LET r2 == out["ledc_timer_config"]
        c2 == c1 \o <<VCall("ledc_timer_config", 0, r2)>>
    IN  IF r2 # "ESP_OK" THEN Result(bl, duty, c2, r2) ELSE
    LET r3 == out["ledc_channel_config"]
        c3 == c2 \o <<VCall("ledc_channel_config", 0, r3)>>
        \* the channel is configured with .duty = 0
        duty3 == IF r3 = "ESP_OK" THEN [pending |-> 0, active |-> 0] ELSE duty
    IN  IF r3 # "ESP_OK" THEN Result(bl, duty3, c3, r3) ELSE
    LET r4 == out["ledc_fade_func_install"]
        c4 == c3 \o <<VCall("ledc_fade_func_install", 0, r4)>>
    IN  IF r4 # "ESP_OK" /\ r4 # "ESP_ERR_INVALID_STATE"
        THEN Result(bl, duty3, c4, r4)
        ELSE Result([bl EXCEPT !.current_brightness = 0, !.is_initialized = TRUE],
                    duty3, c4, "ESP_OK")

st7789_init(d, duty, out) ==
    IF d.is_initialized THEN Result(d, duty, <<>>, "ESP_OK") ELSE
    LET r1 == out["esp_lcd_new_panel_io_spi"]
        c1 == <<VCall("esp_lcd_new_panel_io_spi", 0, r1)>>
        d1 == IF r1 = "ESP_OK" THEN [d EXCEPT !.io_handle = TRUE] ELSE d
    IN  IF r1 # "ESP_OK" THEN Result(d1, duty, c1, r1) ELSE
    LET r2 == out["esp_lcd_new_panel_st7789t"]
        c2 == c1 \o <<VCall("esp_lcd_new_panel_st7789t", 0, r2)>>
        d2 == IF r2 = "ESP_OK" THEN [d1 EXCEPT !.panel_handle = TRUE] ELSE d1
    IN  IF r2 # "ESP_OK" THEN Result(d2, duty, c2, r2) ELSE
    LET r3 == out["esp_lcd_panel_reset"]
        c3 == c2 \o <<VCall("esp_lcd_panel_reset", 0, r3)>>
    IN  IF r3 # "ESP_OK" THEN Result(d2, duty, c3, r3) ELSE
    LET r4 == out["esp_lcd_panel_init"]
        c4 == c3 \o <<VCall("esp_lcd_panel_init", 0, r4)>>
    IN  IF r4 # "ESP_OK" THEN Result(d2, duty, c4, r4) ELSE
    LET r5 == out["esp_lcd_panel_mirror"]
        c5 == c4 \o <<VCall("esp_lcd_panel_mirror", 0, r5)>>
    IN  IF r5 # "ESP_OK" THEN Result(d2, duty, c5, r5) ELSE
    LET r6 == out["esp_lcd_panel_disp_on_off"]
        c6 == c5 \o <<VCall("esp_lcd_panel_disp_on_off", 1, r6)>>
    IN  IF r6 # "ESP_OK" THEN Result(d2, duty, c6, r6) ELSE
    LET bi == backlight_init(d2.backlight, duty, out)
        c7 == c6 \o bi.calls
        d7 == [d2 EXCEPT !.backlight = bi.dev]
    IN  IF bi.ret # "ESP_OK" THEN Result(d7, bi.duty, c7, bi.ret) ELSE
    \* the result of setting the initial brightness is only logged
    LET bs == st7789_backlight_set(d7, bi.duty, d7.config.initial_brightness, out)
    IN  Result([bs.dev EXCEPT !.is_initialized = TRUE], bs.duty,
               c7 \o bs.calls, "ESP_OK")

\* st7789_create: calloc'ed device holding a copy of the configuration.
st7789_create(config) ==
    [config |-> config, is_initialized |-> FALSE,
     io_handle |-> FALSE, panel_handle |-> FALSE,
     backlight |-> [is_initialized |-> FALSE, current_brightness |-> 0]]

st7789_get_default_config ==
    [h_res |-> ST7789_H_RES, v_res |-> ST7789_V_RES,
     offset_x |-> ST7789_OFFSET_X, offset_y |-> ST7789_OFFSET_Y,
     initial_brightness |-> 75]

InitialBrightnesses == {0, 75, 150}
IdfBrightnesses == {0, 1, 50, 100, 101, 150, 255}

IdfOp(name, brightness, r) ==
    [name |-> name, brightness |-> brightness, ret |-> r]

InitIdf(brightnesses) ==
    /\ \E b \in brightnesses :
           dev = st7789_create([st7789_get_default_config EXCEPT !.initial_brightness = b])
    /\ idfDuty = [pending |-> 0, active |-> 0]
    /\ idfCalls = <<>>
    /\ idfLast = IdfOp("none", 0, "none")

St7789Init ==
    \E out \in Outcomes(VendorCalls) :
        LET r == st7789_init(dev, idfDuty, out)
        IN  /\ dev' = r.dev
            /\ idfDuty' = r.duty
            /\ idfCalls' = r.calls
            /\ idfLast' = IdfOp("st7789_init", 0, r.ret)
            /\ UNCHANGED <<varsDisplay, varsLvgl, img, varsTasks>>

St7789BacklightSet ==
    \E brightness \in IdfBrightnesses :
        \E out \in Outcomes(DutyCalls) :
            LET r == st7789_backlight_set(dev, idfDuty, brightness, out)
            IN  /\ dev' = r.dev
                /\ idfDuty' = r.duty
                /\ idfCalls' = r.calls
                /\ idfLast' = IdfOp("st7789_backlight_set", brightness, r.ret)
                /\ UNCHANGED <<varsDisplay, varsLvgl, img, varsTasks>>

(***************************************************************************)
(* ESP-IDF LVGL driver (LVGL_Driver.c).  A pointer is 0 when NULL and       *)
(* otherwise the index of the block it points to among the blocks of its   *)
(* resource; lvHeap[r][k] counts how often block k of resource r has been  *)
(* released.                                                               *)
(***************************************************************************)
Resources == {"buf1", "buf2", "tick_timer"}
Acquire(heap, r) == [heap EXCEPT ![r] = Append(@, 0)]
Release(heap, r, ptr) == [heap EXCEPT ![r][ptr] = @ + 1]

LvCall(fn, args) == [fn |-> fn, args |-> args]

lvgl_get_default_config == [rotation |-> 0, use_double_buffer |-> TRUE]

lvgl_driver_create(config) ==
    [config |-> config, display |-> 0, user_data |-> "NULL",
     rotated |-> "LV_DISP_ROT_NONE", buf1 |-> 0, buf2 |-> 0, tick_timer |-> 0,
     is_initialized |-> FALSE, freed |-> FALSE]

\* The lv_disp_drv_t handed to a callback, with what the callback reads
\* through it: user_data, the LCD device, its panel handle and offsets.
DrvArg(null, user_data, lcd, panel_handle, offset_x, offset_y, rotated) ==
    [null |-> null, user_data |-> user_data, lcd |-> lcd,
     panel_handle |-> panel_handle, offset_x |-> offset_x,
     offset_y |-> offset_y, rotated |-> rotated]
NullDrv == DrvArg(TRUE, "NULL", "NULL", FALSE, 0, 0, "LV_DISP_ROT_NONE")
DrvWithoutLcd == DrvArg(FALSE, "driver", "NULL", FALSE, 0, 0, "LV_DISP_ROT_NONE")
OwnDrv(d, lcd) ==
    DrvArg(FALSE, d.user_data, "device", lcd.panel_handle,
           lcd.config.offset_x, lcd.config.offset_y, d.rotated)

lvgl_rotation_callback(a) ==
    IF a.null \/ a.user_data = "NULL" THEN <<>>
    ELSE IF a.lcd = "NULL" \/ ~a.panel_handle THEN <<>>
    ELSE CASE a.rotated = "LV_DISP_ROT_NONE" ->
                  << LvCall("esp_lcd_panel_swap_xy", <<FALSE>>),
                     LvCall("esp_lcd_panel_mirror", <<TRUE, FALSE>>) >>
           [] a.rotated = "LV_DISP_ROT_90" ->
                  << LvCall("esp_lcd_panel_swap_xy", <<TRUE>>),
                     LvCall("esp_lcd_panel_mirror", <<TRUE, TRUE>>) >>
           [] a.rotated = "LV_DISP_ROT_180" ->
                  << LvCall("esp_lcd_panel_swap_xy", <<FALSE>>),
                     LvCall("esp_lcd_panel_mirror", <<FALSE, TRUE>>) >>
           [] a.rotated = "LV_DISP_ROT_270" ->
                  << LvCall("esp_lcd_panel_swap_xy", <<TRUE>>),
                     LvCall("esp_lcd_panel_mirror", <<FALSE, FALSE>>) >>

\* lv_disp_set_rotation of the graphics library: records the rotation in the
\* display driver and runs its drv_update_cb, lvgl_rotation_callback.
lv_disp_set_rotation(d, lcd, lv_rotation) ==
    LET d1 == [d EXCEPT !.rotated = lv_rotation]
    IN  [drv |-> d1,
         calls |-> <<LvCall("lv_disp_set_rotation", <<lv_rotation>>)>>
                   \o lvgl_rotation_callback(OwnDrv(d1, lcd))]

LvResult(d, heap, calls, r) == [drv |-> d, heap |-> heap, calls |-> calls, ret |-> r]

\* rotation is a uint16_t here, but lvgl_config_t.rotation is a uint8_t.
lvgl_driver_set_rotation(d, heap, lcd, rotation) ==
    IF ~d.is_initialized THEN LvResult(d, heap, <<>>, "ESP_ERR_INVALID_STATE")
    ELSE IF rotation \notin {0, 90, 180, 270}
    THEN LvResult(d, heap, <<>>, "ESP_ERR_INVALID_ARG")
    ELSE LET lv_rotation == CASE rotation = 0 -> "LV_DISP_ROT_NONE"
                              [] rotation = 90 -> "LV_DISP_ROT_90"
                              [] rotation = 180 -> "LV_DISP_ROT_180"
                              [] rotation = 270 -> "LV_DISP_ROT_270"
             r == lv_disp_set_rotation(d, lcd, lv_rotation)
         IN  LvResult([r.drv EXCEPT !.config.rotation = U8(rotation)],
                      heap, r.calls, "ESP_OK")

\* The library calls of lvgl_driver_init that can fail, in program order.
LvglCalls ==
    << "heap_caps_malloc_buf1", "heap_caps_malloc_buf2", "lv_disp_drv_register",
       "esp_timer_create", "esp_timer_start_periodic" >>
LvglOutcomes ==
    {out \in [Range(LvglCalls) -> {"ESP_OK", "ESP_FAIL"}] :
        Cardinality({fn \in Range(LvglCalls) : out[fn] # "ESP_OK"}) <= MaxFaults}

lvgl_driver_init(d, heap, lcd, out) ==
    IF d.is_initialized THEN LvResult(d, heap, <<>>, "ESP_OK") ELSE
    LET c0 == <<LvCall("lv_init", <<>>)>>
        c1 == c0 \o <<LvCall("heap_caps_malloc", <<"buf1">>)>>
    IN  IF out["heap_caps_malloc_buf1"] # "ESP_OK"
        THEN LvResult([d EXCEPT !.buf1 = 0], heap, c1, "ESP_ERR_NO_MEM") ELSE
    LET h1 == Acquire(heap, "buf1")
        d1 == [d EXCEPT !.buf1 = Len(h1["buf1"])]
        c2 == IF d.config.use_double_buffer
              THEN c1 \o <<LvCall("heap_caps_malloc", <<"buf2">>)>> ELSE c1
    IN  \* on failure buf1 is freed and the pointer kept
        IF d.config.use_double_buffer /\ out["heap_caps_malloc_buf2"] # "ESP_OK"
        THEN LvResult([d1 EXCEPT !.buf2 = 0], Release(h1, "buf1", d1.buf1),
                      c2 \o <<LvCall("free", <<"buf1">>)>>, "ESP_ERR_NO_MEM") ELSE
    LET h2 == IF d.config.use_double_buffer THEN Acquire(h1, "buf2") ELSE h1
        d2 == [d1 EXCEPT !.buf2 = IF d.config.use_double_buffer
                                  THEN Len(h2["buf2"]) ELSE 0,
                         !.user_data = "driver"]
        c3 == c2 \o << LvCall("lv_disp_draw_buf_init", <<>>),
                       LvCall("lv_disp_drv_init", <<>>),
                       LvCall("lv_disp_drv_register", <<>>) >>
    IN  IF out["lv_disp_drv_register"] # "ESP_OK"
        THEN LvResult([d2 EXCEPT !.display = 0], h2, c3, "ESP_FAIL") ELSE
    LET d3 == [d2 EXCEPT !.display = 1]
        \* the result of lvgl_driver_set_rotation is not looked at
        sr == IF d3.config.rotation # 0
              THEN lvgl_driver_set_rotation(d3, h2, lcd, d3.config.rotation)
              ELSE LvResult(d3, h2, <<>>, "ESP_OK")
        d4 == sr.drv
        c4 == c3 \o sr.calls \o <<LvCall("esp_timer_create", <<>>)>>
    IN  IF out["esp_timer_create"] # "ESP_OK"
        THEN LvResult(d4, h2, c4, out["esp_timer_create"]) ELSE
    LET h5 == Acquire(h2, "tick_timer")
        d5 == [d4 EXCEPT !.tick_timer = Len(h5["tick_timer"])]
        c5 == c4 \o <<LvCall("esp_timer_start_periodic", <<>>)>>
    IN  \* on failure the timer is deleted and the handle kept
        IF out["esp_timer_start_periodic"] # "ESP_OK"
        THEN LvResult(d5, Release(h5, "tick_timer", d5.tick_timer),
                      c5 \o <<LvCall("esp_timer_delete", <<>>)>>,
                      out["esp_timer_start_periodic"])
        ELSE LvResult([d5 EXCEPT !.is_initialized = TRUE], h5, c5, "ESP_OK")

lvgl_driver_destroy(d, heap) ==
    LET h1 == IF d.tick_timer # 0 THEN Release(heap, "tick_timer", d.tick_timer) ELSE heap
        c1 == IF d.tick_timer # 0
              THEN << LvCall("esp_timer_stop", <<>>), LvCall("esp_timer_delete", <<>>) >>
              ELSE <<>>
        h2 == IF d.buf1 # 0 THEN Release(h1, "buf1", d.buf1) ELSE h1
        c2 == IF d.buf1 # 0 THEN c1 \o <<LvCall("free", <<"buf1">>)>> ELSE c1
        h3 == IF d.buf2 # 0 THEN Release(h2, "buf2", d.buf2) ELSE h2
        c3 == IF d.buf2 # 0 THEN c2 \o <<LvCall("free", <<"buf2">>)>> ELSE c2
    IN  LvResult([d EXCEPT !.tick_timer = 0, !.buf1 = 0, !.buf2 = 0, !.freed = TRUE],
                 h3, c3 \o <<LvCall("free", <<"driver">>)>>, "ESP_OK")

\* area is <<x1, y1, x2, y2>>.
lvgl_flush_callback(a, area) ==
    IF a.null \/ a.user_data = "NULL" THEN <<>>
    ELSE IF a.lcd = "NULL" \/ ~a.panel_handle
    THEN <<LvCall("lv_disp_flush_ready", <<>>)>>
    ELSE << LvCall("esp_lcd_panel_draw_bitmap",
                   << area[1] + a.offset_x, area[2] + a.offset_y,
                      area[3] + a.offset_x + 1, area[4] + a.offset_y + 1 >>),
            LvCall("lv_disp_flush_ready", <<>>) >>

\* Rotations a caller asks for, at creation and afterwards.
LvglRotations == {0, 90, 180, 270}
SetRotations == {0, 90, 180, 270, 45}
FlushAreas == { <<0, 0, 0, 0>>, <<10, 20, 50, 60>>, <<0, 300, 171, 319>> }
\* lvgl_driver_init calls allowed on one driver object.
MaxInits == 2

LvOp(name, rotation, a, area, r) ==
    [name |-> name, rotation |-> rotation, a |-> a, area |-> area, ret |-> r]

\* A driver created from the default configuration with the rotation and
\* buffering a caller chose; lvgl_config_t.rotation is a uint8_t.
InitLvgl(rotations, buffering) ==
    /\ \E r \in rotations : \E db \in buffering :
           /\ lvDrv = lvgl_driver_create(
                          [lvgl_get_default_config EXCEPT !.rotation = U8(r),
                                                          !.use_double_buffer = db])
           /\ lvLast = LvOp("lvgl_driver_create", r, NullDrv, <<0, 0, 0, 0>>, "driver")
    /\ lvHeap = [r \in Resources |-> <<>>]
    /\ lvInits = 0
    /\ lvCalls = <<>>

\* The LCD device the LVGL driver is created for: fresh from st7789_create,
\* or after an st7789_init in which every vendor call succeeded.
InitLcdDevice ==
    /\ idfDuty = [pending |-> 0, active |-> 0]
    /\ idfCalls = <<>>
    /\ idfLast = IdfOp("none", 0, "none")
    /\ LET created == st7789_create(st7789_get_default_config)
       IN  dev \in { created,
                     st7789_init(created, idfDuty,
                                 [fn \in Range(VendorCalls) |-> "ESP_OK"]).dev }

LvglDriverInit ==
    /\ ~lvDrv.freed
    /\ lvInits < MaxInits
    /\ \E out \in LvglOutcomes :
           LET r == lvgl_driver_init(lvDrv, lvHeap, dev, out)
           IN  /\ lvDrv' = r.drv
               /\ lvHeap' = r.heap
               /\ lvCalls' = r.calls
               /\ lvLast' = LvOp("lvgl_driver_init", 0, NullDrv,
                                 <<0, 0, 0, 0>>, r.ret)
    /\ lvInits' = lvInits + 1
    /\ UNCHANGED <<varsDisplay, varsIdf, img, varsTasks>>

LvglDriverSetRotation ==
    /\ ~lvDrv.freed
    /\ \E rotation \in SetRotations :
           LET r == lvgl_driver_set_rotation(lvDrv, lvHeap, dev, rotation)
           IN  /\ lvDrv' = r.drv
               /\ lvCalls' = r.calls
               /\ lvLast' = LvOp("lvgl_driver_set_rotation", rotation, NullDrv,
                                 <<0, 0, 0, 0>>, r.ret)
    /\ UNCHANGED <<varsDisplay, varsIdf, lvHeap, lvInits, img, varsTasks>>

\* The display drivers lvgl_flush_callback can be handed: none, one whose
\* driver has no LCD device, and the driver's own disp_drv.
FlushDrvs == {NullDrv, DrvWithoutLcd} \cup (IF lvDrv.freed THEN {} ELSE {OwnDrv(lvDrv, dev)})

LvglFlushCallback ==
    /\ \E a \in FlushDrvs : \E area \in FlushAreas :
           /\ lvCalls' = lvgl_flush_callback(a, area)
           /\ lvLast' = LvOp("lvgl_flush_callback", 0, a, area, "void")
    /\ UNCHANGED <<varsDisplay, varsIdf, lvDrv, lvHeap, lvInits, img, varsTasks>>

\* Releasing a block a second time is undefined: the heap either lets the
\* call return or aborts the program.
LvglDriverDestroy ==
    /\ ~lvDrv.freed
    /\ LET r == lvgl_driver_destroy(lvDrv, lvHeap)
           twice == \E res \in Resources : \E k \in 1..Len(r.heap[res]) :
                        r.heap[res][k] > 1
       IN  /\ lvDrv' = r.drv
           /\ lvHeap' = r.heap
           /\ lvCalls' = r.calls
           /\ \E outcome \in (IF twice THEN {"ESP_OK", "abort"} ELSE {"ESP_OK"}) :
                  lvLast' = LvOp("lvgl_driver_destroy", 0, NullDrv,
                                 <<0, 0, 0, 0>>, outcome)
    /\ UNCHANGED <<varsDisplay, varsIdf, lvInits, img, varsTasks>>

(***************************************************************************)
(* Arduino image path (LCD_Image.cpp): showImage decodes a PNG line by     *)
(* line onto the display.  The PNG decoder is a library; what it reports   *)
(* (open result, image size, lines decoded, decode result) is an input.    *)
(***************************************************************************)
MAX_IMAGE_WIDTH == 172
imageXPos == 0
imageYPos == 0

\* ((v >> 8) & 0xFF) | ((v << 8) & 0xFF00) on a uint16_t.
Swap16(v) == ((v \div 256) % 256) + ((v * 256) % 65536)

\* The RGB565 value of pixel (x, y) of the decoded image.
PngPixel(x, y) == U16(\hA1B2 + 257 * x + 4099 * y)
\* getLineAsRGB565(..., PNG_RGB565_BIG_ENDIAN, ...): line y, bytes swapped.
getLineAsRGB565(y, iWidth) == [i \in 1..iWidth |-> Swap16(PngPixel(i - 1, y))]

\* The rectangle pngDraw hands to drawPixelBuffer for line y.
pngDrawRect(y, iWidth) ==
    << U16(imageXPos), U16(y), U16(imageXPos + iWidth - 1), U16(imageYPos + y) >>

pngDraw(c, y, iWidth) ==
    LET decoded == getLineAsRGB565(y, iWidth)
        lineBuffer == [i \in 1..iWidth |-> Swap16(decoded[i])]
        r == pngDrawRect(y, iWidth)
    IN  drawPixelBuffer(c, r[1], r[2], r[3], r[4], lineBuffer)

\* pngDecoder.decode: pngDraw for each of the first n lines.
RECURSIVE decodeLines(_, _, _, _)
decodeLines(c, iWidth, first, last) ==
    IF first > last THEN <<>>
    ELSE IF first = last THEN pngDraw(c, first, iWidth)
    ELSE LET mid == (first + last) \div 2
         IN  decodeLines(c, iWidth, first, mid) \o decodeLines(c, iWidth, mid + 1, last)
decode(c, iWidth, n) == decodeLines(c, iWidth, 0, n - 1)

\* A PNG as the decoder reports it: the result of open, the image size, the
\* lines decode delivers before it returns, and what decode returns.
Png(open, width, height, lines, result) ==
    [open |-> open, width |-> width, height |-> height, lines |-> lines,
     result |-> result]

\* Mutant of showImage: the image width is not checked.
showImage_noWidthCheck(c, png) ==
    IF png.open = "PNG_SUCCESS"
    THEN [trace |-> decode(c, png.width, png.lines), lines |-> png.lines,
          ret |-> "true"]
    ELSE [trace |-> <<>>, lines |-> 0, ret |-> "false"]

\* The result of decode is stored and never read.
showImage(c, png) ==
    IF png.open = "PNG_SUCCESS"
    THEN IF png.width > MAX_IMAGE_WIDTH
         THEN [trace |-> <<>>, lines |-> 0, ret |-> "false"]
         ELSE [trace |-> decode(c, png.width, png.lines), lines |-> png.lines,
               ret |-> "true"]
    ELSE [trace |-> <<>>, lines |-> 0, ret |-> "false"]

\* Largest height, in lines, of a PNG.
MaxImageHeight == 3
ImageWidths == {1, 2, MAX_IMAGE_WIDTH, MAX_IMAGE_WIDTH + 1}
\* A PNG one pixel wide and one line taller than the panel.
TallPng == Png("PNG_SUCCESS", 1, LCD_HEIGHT + 1, LCD_HEIGHT + 1, "PNG_SUCCESS")
Pngs ==
    {Png("PNG_INVALID_FILE", 0, 0, 0, "PNG_INVALID_FILE"), TallPng}
    \cup {Png("PNG_SUCCESS", w, h, h, "PNG_SUCCESS") :
              w \in ImageWidths, h \in 1..MaxImageHeight}
    \cup {Png("PNG_SUCCESS", w, h, n, "PNG_DECODE_ERROR") :
              w \in ImageWidths, h \in 1..MaxImageHeight, n \in 0..MaxImageHeight}

InitImage ==
    img = [png |-> Png("none", 0, 0, 0, "none"), lines |-> 0]

ShowImage ==
    \E png \in {p \in Pngs : p.lines <= p.height} :
        LET r == showImage(cfg, png)
        IN  /\ Run(r.trace)
            /\ img' = [png |-> png, lines |-> r.lines]
            /\ lastCall' = Call("showImage", <<0, 0, 0, 0>>, <<>>, 0)
            /\ ret' = r.ret
            /\ UNCHANGED <<cfg, initialized, varsIdf, varsLvgl, varsTasks>>

(***************************************************************************)
(* Legacy wireless scan (Wireless.c) and the UI timer that displays it      *)
(* (LVGL_Example.c).  The WiFi task, the BLE task, the Bluetooth host task  *)
(* that delivers GAP events and the UI task are FreeRTOS tasks that can be  *)
(* switched between any two statements; one step is one statement on the    *)
(* shared globals.                                                          *)
(***************************************************************************)
WIRELESS_MAX_BLE_DEVICES == 100

\* Access-point counts esp_wifi_scan_get_ap_num reports.
ApCounts == {0, 7}
\* BLE devices in range beyond the capacity of legacy_devices.
MaxExtraDevices == 1
\* Increments of BLE_NUM allowed beyond the number of devices in range.
MaxRecounts == 1
\* BLE devices in range while the WiFi task and the UI task are observed.
MaxNearby == 2

Min(a, b) == IF a < b THEN a ELSE b

\* The BLE devices in range are 1..nearby, numbered in the order in which
\* they are first reported; reported holds those reported so far.
InitWireless(nearby) ==
    /\ BLE_NUM = 0
    /\ WIFI_NUM = 0
    /\ Scan_finish = FALSE
    /\ WiFi_Scan_Finish = FALSE
    /\ BLE_Scan_Finish = FALSE
    /\ legacy_devices = <<>>
    /\ wifiTask = [pc |-> "created", ap_count |-> 0]
    /\ bleTask = [pc |-> "created"]
    /\ uiTimer = [pc |-> "idle", finish |-> FALSE, wifi |-> 0, ble |-> 0]
    /\ bleAir \in [nearby : nearby, reported : {{}}]

legacy_num_discovered_devices == Len(legacy_devices)

legacy_is_device_discovered(devices, addr) ==
    \E i \in 1..Len(devices) : devices[i] = addr

legacy_add_device_to_list(devices, addr) ==
    IF Len(devices) < WIRELESS_MAX_BLE_DEVICES THEN Append(devices, addr)
    ELSE devices

\* WIFI_Init up to and WIFI_Scan through esp_wifi_scan_stop: the blocking
\* scan has run and ap_count holds its result.
WifiScan ==
    /\ wifiTask.pc = "created"
    /\ \E ap_count \in ApCounts :
           wifiTask' = [pc |-> "scanned", ap_count |-> ap_count]
    /\ UNCHANGED <<varsDrivers, varsRgb, BLE_NUM, WIFI_NUM, Scan_finish,
                   WiFi_Scan_Finish, BLE_Scan_Finish, legacy_devices, bleTask,
                   uiTimer, bleAir>>

\* WiFi_Scan_Finish = true;
WifiSetFinish ==
    /\ wifiTask.pc = "scanned"
    /\ WiFi_Scan_Finish' = TRUE
    /\ wifiTask' = [wifiTask EXCEPT !.pc = "flagged"]
    /\ UNCHANGED <<varsDrivers, varsRgb, BLE_NUM, WIFI_NUM, Scan_finish,
                   BLE_Scan_Finish, legacy_devices, bleTask, uiTimer, bleAir>>

\* Mutant of WifiCheckBle: Scan_finish is left alone.
WifiCheckBle_noFinish ==
    /\ wifiTask.pc = "flagged"
    /\ wifiTask' = [wifiTask EXCEPT !.pc = "returned"]
    /\ UNCHANGED <<varsDrivers, varsRgb, BLE_NUM, WIFI_NUM, Scan_finish,
                   WiFi_Scan_Finish, BLE_Scan_Finish, legacy_devices, bleTask,
                   uiTimer, bleAir>>

\* if (BLE_Scan_Finish) Scan_finish = true; return ap_count;
WifiCheckBle ==
    /\ wifiTask.pc = "flagged"
    /\ Scan_finish' = (IF BLE_Scan_Finish THEN TRUE ELSE Scan_finish)
    /\ wifiTask' = [wifiTask EXCEPT !.pc = "returned"]
    /\ UNCHANGED <<varsDrivers, varsRgb, BLE_NUM, WIFI_NUM, WiFi_Scan_Finish,
                   BLE_Scan_Finish, legacy_devices, bleTask, uiTimer, bleAir>>

\* WIFI_NUM = WIFI_Scan(); ... vTaskDelete(NULL);
WifiStoreNum ==
    /\ wifiTask.pc = "returned"
    /\ WIFI_NUM' = wifiTask.ap_count
    /\ wifiTask' = [wifiTask EXCEPT !.pc = "deleted"]
    /\ UNCHANGED <<varsDrivers, varsRgb, BLE_NUM, Scan_finish, WiFi_Scan_Finish,
                   BLE_Scan_Finish, legacy_devices, bleTask, uiTimer, bleAir>>

\* BLE_Init up to and BLE_Scan through esp_ble_gap_start_scanning; when a
\* call of the Bluetooth stack fails BLE_Init returns without scanning.
BleInit ==
    /\ bleTask.pc = "created"
    /\ \E r \in {"ESP_OK", "ESP_FAIL"} :
           bleTask' = [pc |-> IF r = "ESP_OK" THEN "scanning" ELSE "failed"]
    /\ UNCHANGED <<varsDrivers, varsRgb, BLE_NUM, WIFI_NUM, Scan_finish,
                   WiFi_Scan_Finish, BLE_Scan_Finish, legacy_devices, wifiTask,
                   uiTimer, bleAir>>

GapEvents == {"ESP_GAP_BLE_SCAN_RESULT_EVT", "ESP_GAP_BLE_SCAN_STOP_COMPLETE_EVT"}

\* legacy_esp_gap_cb: scan results arrive while the scan runs, the stop
\* event after it was stopped.
LegacyEspGapCb ==
    /\ BLE_NUM < bleAir.nearby + MaxRecounts
    /\ \E event \in GapEvents :
       \E bda \in 1..Min(Cardinality(bleAir.reported) + 1, bleAir.nearby) :
           IF event = "ESP_GAP_BLE_SCAN_RESULT_EVT"
           THEN /\ bleTask.pc = "scanning"
                /\ bleAir' = [bleAir EXCEPT !.reported = @ \cup {bda}]
                /\ IF ~legacy_is_device_discovered(legacy_devices, bda)
                   THEN /\ legacy_devices' = legacy_add_device_to_list(legacy_devices, bda)
                        /\ BLE_NUM' = U16(BLE_NUM + 1)
                   ELSE UNCHANGED <<legacy_devices, BLE_NUM>>
           ELSE /\ bleTask.pc \notin {"created", "failed", "scanning"}
                /\ UNCHANGED <<legacy_devices, BLE_NUM, bleAir>>
    /\ UNCHANGED <<varsDrivers, varsRgb, WIFI_NUM, Scan_finish, WiFi_Scan_Finish,
                   BLE_Scan_Finish, wifiTask, bleTask, uiTimer>>

\* vTaskDelay(...) is over; esp_ble_gap_stop_scanning();
BleStopScanning ==
    /\ bleTask.pc = "scanning"
    /\ bleTask' = [pc |-> "stopped"]
    /\ UNCHANGED <<varsDrivers, varsRgb, BLE_NUM, WIFI_NUM, Scan_finish,
                   WiFi_Scan_Finish, BLE_Scan_Finish, legacy_devices, wifiTask,
                   uiTimer, bleAir>>

\* BLE_Scan_Finish = true;
BleSetFinish ==
    /\ bleTask.pc = "stopped"
    /\ BLE_Scan_Finish' = TRUE
    /\ bleTask' = [pc |-> "flagged"]
    /\ UNCHANGED <<varsDrivers, varsRgb, BLE_NUM, WIFI_NUM, Scan_finish,
                   WiFi_Scan_Finish, legacy_devices, wifiTask, uiTimer, bleAir>>

\* if (WiFi_Scan_Finish) Scan_finish = true; return BLE_NUM;
BleCheckWifi ==
    /\ bleTask.pc = "flagged"
    /\ Scan_finish' = (IF WiFi_Scan_Finish THEN TRUE ELSE Scan_finish)
    /\ bleTask' = [pc |-> "returned"]
    /\ UNCHANGED <<varsDrivers, varsRgb, BLE_NUM, WIFI_NUM, WiFi_Scan_Finish,
                   BLE_Scan_Finish, legacy_devices, wifiTask, uiTimer, bleAir>>

\* BLE_Scan(); vTaskDelete(NULL);  The returned count is dropped.
BleTaskDelete ==
    /\ bleTask.pc = "returned"
    /\ bleTask' = [pc |-> "deleted"]
    /\ UNCHANGED <<varsDrivers, varsRgb, BLE_NUM, WIFI_NUM, Scan_finish,
                   WiFi_Scan_Finish, BLE_Scan_Finish, legacy_devices, wifiTask,
                   uiTimer, bleAir>>

\* example1_increase_lvgl_tick: if(Scan_finish)
UiReadScanFinish ==
    /\ uiTimer.pc = "idle"
    /\ uiTimer' = [uiTimer EXCEPT !.pc = "format", !.finish = Scan_finish]
    /\ UNCHANGED <<varsDrivers, varsRgb, BLE_NUM, WIFI_NUM, Scan_finish,
                   WiFi_Scan_Finish, BLE_Scan_Finish, legacy_devices, wifiTask,
                   bleTask, bleAir>>

\* snprintf(buf, ..., WIFI_NUM, BLE_NUM); lv_textarea_set_placeholder_text
UiFormat ==
    /\ uiTimer.pc = "format"
    /\ uiTimer' = [uiTimer EXCEPT !.pc = "idle", !.wifi = WIFI_NUM, !.ble = BLE_NUM]
    /\ UNCHANGED <<varsDrivers, varsRgb, BLE_NUM, WIFI_NUM, Scan_finish,
                   WiFi_Scan_Finish, BLE_Scan_Finish, legacy_devices, wifiTask,
                   bleTask, bleAir>>

(***************************************************************************)
(* RGB effect task (RGB.c).  One task calls RGB_Example and RGB_Stop, one   *)
(* after the other; the effect tasks it created run interleaved with it.    *)
(* A task handle is 0 when NULL and otherwise the index of the task among   *)
(* the tasks created; rgbTasks[t].deletes counts the vTaskDelete calls      *)
(* made on task t.                                                          *)
(***************************************************************************)
\* RGB_Example calls that create a task.
MaxEffectTasks == 2

InitRgb ==
    /\ s_rgb_state = [is_running |-> FALSE]
    /\ s_effect_task_handle = 0
    /\ rgbTasks = <<>>
    /\ rgbCaller = [pc |-> "idle", handle |-> 0]
    /\ rgbLed = "off"

\* vTaskDelete(handle) called by another task.
vTaskDelete(tasks, handle) ==
    [tasks EXCEPT ![handle] = [pc |-> "deleted", deletes |-> @.deletes + 1]]

\* RGB_Example: xTaskCreatePinnedToCore stores the handle before the new
\* task first runs.
RgbExample ==
    /\ rgbCaller.pc = "idle"
    /\ Len(rgbTasks) < MaxEffectTasks
    /\ IF s_rgb_state.is_running
       THEN UNCHANGED <<s_rgb_state, rgbTasks, s_effect_task_handle>>
       ELSE /\ s_rgb_state' = [s_rgb_state EXCEPT !.is_running = TRUE]
            /\ rgbTasks' = Append(rgbTasks, [pc |-> "loop", deletes |-> 0])
            /\ s_effect_task_handle' = Len(rgbTasks) + 1
    /\ UNCHANGED <<varsDrivers, varsWireless, rgbCaller, rgbLed>>

\* RGB_Stop: s_rgb_state.is_running = false;
RgbStopBegin ==
    /\ rgbCaller.pc = "idle"
    /\ s_rgb_state' = [s_rgb_state EXCEPT !.is_running = FALSE]
    /\ rgbCaller' = [rgbCaller EXCEPT !.pc = "stop_test"]
    /\ UNCHANGED <<varsDrivers, varsWireless, s_effect_task_handle, rgbTasks, rgbLed>>

\* RGB_Stop: if (s_effect_task_handle != NULL)
RgbStopTest ==
    /\ rgbCaller.pc = "stop_test"
    /\ rgbCaller' = [pc |-> IF s_effect_task_handle # 0 THEN "stop_delete" ELSE "stop_off",
                     handle |-> s_effect_task_handle]
    /\ UNCHANGED <<varsDrivers, varsWireless, s_rgb_state, s_effect_task_handle,
                   rgbTasks, rgbLed>>

\* RGB_Stop: vTaskDelete(s_effect_task_handle);  The handle is not
\* volatile: the argument is the value the test loaded or one loaded again,
\* and vTaskDelete(NULL) deletes the calling task.
RgbStopDelete ==
    /\ rgbCaller.pc = "stop_delete"
    /\ \E handle \in {rgbCaller.handle, s_effect_task_handle} :
           IF handle = 0
           THEN /\ rgbCaller' = [rgbCaller EXCEPT !.pc = "deleted"]
                /\ UNCHANGED rgbTasks
           ELSE /\ rgbCaller' = [rgbCaller EXCEPT !.pc = "stop_clear"]
                /\ rgbTasks' = vTaskDelete(rgbTasks, handle)
    /\ UNCHANGED <<varsDrivers, varsWireless, s_rgb_state, s_effect_task_handle, rgbLed>>

\* RGB_Stop: s_effect_task_handle = NULL;
RgbStopClear ==
    /\ rgbCaller.pc = "stop_clear"
    /\ s_effect_task_handle' = 0
    /\ rgbCaller' = [rgbCaller EXCEPT !.pc = "stop_off"]
    /\ UNCHANGED <<varsDrivers, varsWireless, s_rgb_state, rgbTasks, rgbLed>>

\* RGB_Stop: RGB_Off();
RgbStopOff ==
    /\ rgbCaller.pc = "stop_off"
    /\ rgbLed' = "off"
    /\ rgbCaller' = [rgbCaller EXCEPT !.pc = "idle"]
    /\ UNCHANGED <<varsDrivers, varsWireless, s_rgb_state, s_effect_task_handle, rgbTasks>>

\* rgb_effect_task: one test of while (s_rgb_state.is_running) and, when it
\* holds, one pass of the loop body.
EffectLoop ==
    /\ \E t \in 1..Len(rgbTasks) :
           /\ rgbTasks[t].pc = "loop"
           /\ IF s_rgb_state.is_running
              THEN rgbLed' = "on" /\ UNCHANGED rgbTasks
              ELSE rgbTasks' = [rgbTasks EXCEPT ![t].pc = "ended"] /\ UNCHANGED rgbLed
    /\ UNCHANGED <<varsDrivers, varsWireless, s_rgb_state, s_effect_task_handle, rgbCaller>>

\* rgb_effect_task: s_effect_task_handle = NULL;
EffectClearHandle ==
    /\ \E t \in 1..Len(rgbTasks) :
           /\ rgbTasks[t].pc = "ended"
           /\ rgbTasks' = [rgbTasks EXCEPT ![t].pc = "cleared"]
    /\ s_effect_task_handle' = 0
    /\ UNCHANGED <<varsDrivers, varsWireless, s_rgb_state, rgbCaller, rgbLed>>

\* rgb_effect_task: vTaskDelete(NULL);
EffectDelete ==
    /\ \E t \in 1..Len(rgbTasks) :
           /\ rgbTasks[t].pc = "cleared"
           /\ rgbTasks' = vTaskDelete(rgbTasks, t)
    /\ UNCHANGED <<varsDrivers, varsWireless, s_rgb_state, s_effect_task_handle,
                   rgbCaller, rgbLed>>

\* The FreeRTOS tasks of the ESP-IDF application, none of which has run.
InitTasks == InitWireless({MaxNearby}) /\ InitRgb

(***************************************************************************)
(* Specifications.                                                         *)
(***************************************************************************)
NextDisplay == Begin \/ SetWindow \/ DrawPixelBuffer \/ ClearScreen \/ SetBacklight

\* The Arduino display driver under every sequence of public operations.
Init == InitDisplay(Configs) /\ InitIdf({75}) /\ InitLvgl({0}, {TRUE}) /\ InitImage
    /\ InitTasks
Spec == Init /\ [][NextDisplay]_vars

\* The ESP-IDF driver under every sequence of init and backlight calls.
NextIdf == St7789Init \/ St7789BacklightSet
InitForIdf ==
    InitDisplay({DefaultConfig}) /\ InitIdf(InitialBrightnesses) /\ InitLvgl({0}, {TRUE}) /\ InitImage
    /\ InitTasks
SpecIdf == InitForIdf /\ [][NextIdf]_vars

\* The backlight paths of both drivers.
NextBacklight == SetBacklight \/ St7789Init \/ St7789BacklightSet
InitBacklight == InitDisplay({DefaultConfig}) /\ InitIdf({75}) /\ InitLvgl({0}, {TRUE}) /\ InitImage
    /\ InitTasks
SpecBacklight == InitBacklight /\ [][NextBacklight]_vars

\* The LVGL driver under every sequence of its operations and callbacks.
NextLvgl ==
    LvglDriverInit \/ LvglDriverSetRotation \/ LvglFlushCallback \/ LvglDriverDestroy
InitForLvgl ==
    /\ InitDisplay({DefaultConfig}) /\ InitLcdDevice
    /\ InitLvgl(LvglRotations, BOOLEAN) /\ InitImage /\ InitTasks
SpecLvgl == InitForLvgl /\ [][NextLvgl]_vars

\* The image path on the default display, begun or not.
NextImage == Begin \/ ShowImage
InitForImage ==
    InitDisplay({DefaultConfig}) /\ InitIdf({75}) /\ InitLvgl({0}, {TRUE}) /\ InitImage
    /\ InitTasks
SpecImage == InitForImage /\ [][NextImage]_vars

\* The legacy wireless scan: WiFi task, BLE task, GAP events and UI timer.
NextWireless ==
    \/ WifiScan \/ WifiSetFinish \/ WifiCheckBle \/ WifiStoreNum
    \/ BleInit \/ LegacyEspGapCb \/ BleStopScanning \/ BleSetFinish
    \/ BleCheckWifi \/ BleTaskDelete
    \/ UiReadScanFinish \/ UiFormat
InitForWireless ==
    /\ InitDisplay({DefaultConfig}) /\ InitIdf({75}) /\ InitLvgl({0}, {TRUE})
    /\ InitImage /\ InitWireless({MaxNearby}) /\ InitRgb
SpecWireless == InitForWireless /\ [][NextWireless]_vars

\* The BLE task where more devices are in range than legacy_devices holds.
NextBle ==
    \/ BleInit \/ LegacyEspGapCb \/ BleStopScanning \/ BleSetFinish
    \/ BleCheckWifi \/ BleTaskDelete
InitForBle ==
    /\ InitDisplay({DefaultConfig}) /\ InitIdf({75}) /\ InitLvgl({0}, {TRUE})
    /\ InitImage /\ InitWireless({WIRELESS_MAX_BLE_DEVICES + MaxExtraDevices})
    /\ InitRgb
SpecBle == InitForBle /\ [][NextBle]_vars

\* The RGB effect task under every order of RGB_Example and RGB_Stop.
NextRgb ==
    \/ RgbExample \/ RgbStopBegin \/ RgbStopTest \/ RgbStopDelete
    \/ RgbStopClear \/ RgbStopOff
    \/ EffectLoop \/ EffectClearHandle \/ EffectDelete
InitForRgb ==
    /\ InitDisplay({DefaultConfig}) /\ InitIdf({75}) /\ InitLvgl({0}, {TRUE})
    /\ InitImage /\ InitTasks
SpecRgb == InitForRgb /\ [][NextRgb]_vars

(***************************************************************************)
(* Reading a trace: the bytes that cross the bus.                          *)
(***************************************************************************)
IsWrite(e, pin) == e.k = "digitalWrite" /\ e.pin = pin

\* The level the operation last wrote to the pin before call i of the
\* trace, "-" when it has not written the pin yet.
LevelBefore(tr, i, pin) ==
    IF \E k \in 1..(i - 1) : IsWrite(tr[i - k], pin)
    THEN LET k == CHOOSE k \in 1..(i - 1) :
                      /\ IsWrite(tr[i - k], pin)
                      /\ \A m \in 1..(k - 1) : ~IsWrite(tr[i - m], pin)
         IN  tr[i - k].lvl
    ELSE "-"

IsTransfer(e) == e.k \in {"transfer", "transferBytes"}

\* Call i is a transfer framed by its own transaction with chip-select low:
\* beginTransaction, CS low, DC, the transfer, CS high, endTransaction.
Gated(tr, i) ==
    /\ i > 3 /\ i + 2 <= Len(tr)
    /\ IsTransfer(tr[i])
    /\ tr[i - 3] = BeginTransaction
    /\ tr[i - 2] = DigitalWrite("cs", "LOW")
    /\ IsWrite(tr[i - 1], "dc")
    /\ tr[i + 1] = DigitalWrite("cs", "HIGH")
    /\ tr[i + 2] = EndTransaction

\* The transfers of a trace in order, each with the data/command level it
\* was made under.
Bus(tr) ==
    LET A == [i \in 1..Len(tr) |->
                 [k |-> tr[i].k, v |-> tr[i].v, data |-> tr[i].data,
                  dc |-> IF IsTransfer(tr[i]) THEN LevelBefore(tr, i, "dc") ELSE "-"]]
    IN  SelectSeq(A, IsTransfer)

IsCommand(f, cmd) == f.k = "transfer" /\ f.dc = "LOW" /\ f.v = cmd
IsParam(f) == f.k = "transfer" /\ f.dc = "HIGH"

\* The parameter bytes that follow the first command byte cmd on the bus.
Params(B, cmd) ==
    IF \A n \in 1..Len(B) : ~IsCommand(B[n], cmd) THEN <<>>
    ELSE LET n == CHOOSE n \in 1..Len(B) :
                      IsCommand(B[n], cmd) /\ \A m \in 1..(n - 1) : ~IsCommand(B[m], cmd)
             AllParams(k) == \A j \in 1..k : IsParam(B[n + j])
             len == CHOOSE k \in 0..(Len(B) - n) :
                        AllParams(k) /\ (k < Len(B) - n => ~IsParam(B[n + k + 1]))
         IN  [j \in 1..len |-> B[n + j].v]

\* Big-endian 16-bit encoding and decoding.
BE16(v) == << v \div 256, v % 256 >>
Decode16(hi, lo) == hi * 256 + lo

Did(name) == lastCall.name = name
InBounds ==
    /\ 0 <= lastCall.x1 /\ lastCall.x1 <= lastCall.x2 /\ lastCall.x2 < cfg.width
    /\ 0 <= lastCall.y1 /\ lastCall.y1 <= lastCall.y2 /\ lastCall.y2 < cfg.height

(***************************************************************************)
(* Claims.                                                                 *)
(***************************************************************************)

\* C1: setWindow, horizontal = TRUE, valid configuration, in-bounds window:
\* the bytes after command 0x2A are the big-endian 16-bit encodings of
\* x1 + offset_x and x2 + offset_x, those after 0x2B of y1 + offset_y and
\* y2 + offset_y.  (Fails: the high byte is taken from the coordinate before
\* the offset is added, so a carry into it is lost.)
C1_HorizontalWindowIsBigEndian ==
    (Did("setWindow") /\ cfg.horizontal /\ ValidConfig(cfg) /\ InBounds) =>
        /\ Params(Bus(trace), \h2A) =
               BE16(lastCall.x1 + cfg.offset_x) \o BE16(lastCall.x2 + cfg.offset_x)
        /\ Params(Bus(trace), \h2B) =
               BE16(lastCall.y1 + cfg.offset_y) \o BE16(lastCall.y2 + cfg.offset_y)

\* C2: setWindow, horizontal = FALSE, valid configuration, in-bounds window:
\* command 0x2A carries the big-endian 16-bit values y1 + offset_y and
\* y2 + offset_y, command 0x2B carries x1 + offset_x and x2 + offset_x.
\* (Fails for the same reason as C1.)
C2_VerticalWindowIsBigEndian ==
    (Did("setWindow") /\ ~cfg.horizontal /\ ValidConfig(cfg) /\ InBounds) =>
        /\ Params(Bus(trace), \h2A) =
               BE16(lastCall.y1 + cfg.offset_y) \o BE16(lastCall.y2 + cfg.offset_y)
        /\ Params(Bus(trace), \h2B) =
               BE16(lastCall.x1 + cfg.offset_x) \o BE16(lastCall.x2 + cfg.offset_x)

\* C3: under the default configuration (172 x 320, offset 34 / 0,
\* horizontal) the column parameters of setWindow decode, high byte then low
\* byte, to x1 + 34 and x2 + 34 and the row parameters to y1 and y2; for
\* setWindow(10, 20, 50, 60) they are 44, 84 and 20, 60.
C3_DefaultWindow ==
    (Did("setWindow") /\ cfg = DefaultConfig /\ InBounds) =>
        LET col == Params(Bus(trace), \h2A)
            row == Params(Bus(trace), \h2B)
        IN  /\ Len(col) = 4 /\ Len(row) = 4
            /\ Decode16(col[1], col[2]) = lastCall.x1 + 34
            /\ Decode16(col[3], col[4]) = lastCall.x2 + 34
            /\ Decode16(row[1], row[2]) = lastCall.y1
            /\ Decode16(row[3], row[4]) = lastCall.y2
            /\ (<<lastCall.x1, lastCall.y1, lastCall.x2, lastCall.y2>> = <<10, 20, 50, 60>>
                    => /\ col = <<0, 44, 0, 84>>
                       /\ row = <<0, 20, 0, 60>>)

\* C3 witness: the scenario of the specification, and a window whose rows
\* lie beyond the byte boundary, have been set under the default
\* configuration.
C3_Witness ==
    /\ Did("setWindow") /\ cfg = DefaultConfig
    /\ lastCall.x1 = 0 /\ lastCall.x2 = 171 /\ lastCall.y1 = 256 /\ lastCall.y2 = 319
    /\ Params(Bus(trace), \h2A) = <<0, 34, 0, 205>>
    /\ Params(Bus(trace), \h2B) = <<1, 0, 1, 63>>

\* The bytes are the first n pixels, each low byte first as it lies in
\* memory.
BytesOfPixels(bytes, pixels, n) ==
    /\ Len(bytes) = 2 * n
    /\ \A j \in 1..n : /\ bytes[2 * j - 1] = pixels[j] % 256
                       /\ bytes[2 * j] = pixels[j] \div 256

\* C4: drawPixelBuffer(x1, y1, x2, y2, buf) with x1 <= x2, y1 <= y2 makes
\* exactly the calls of one setWindow(x1, y1, x2, y2) and then exactly one
\* chip-select-gated bulk write of (x2-x1+1) * (y2-y1+1) * 2 bytes, the
\* buffer's bytes in their order, and no other transfer.
C4_DrawIsWindowThenOneBurst ==
    (Did("drawPixelBuffer") /\ InBounds) =>
        LET n == (lastCall.x2 - lastCall.x1 + 1) * (lastCall.y2 - lastCall.y1 + 1)
            sw == setWindow(cfg, lastCall.x1, lastCall.y1, lastCall.x2, lastCall.y2)
        IN  /\ Len(trace) = Len(sw) + 6
            /\ SubSeq(trace, 1, Len(sw)) = sw
            /\ Count(trace, "transferBytes") = 1
            /\ Count(trace, "transfer") = Count(sw, "transfer")
            /\ Gated(trace, Len(sw) + 4)
            /\ trace[Len(sw) + 3] = DigitalWrite("dc", "HIGH")
            /\ trace[Len(sw) + 4].k = "transferBytes"
            /\ trace[Len(sw) + 4].v = n * 2
            /\ BytesOfPixels(trace[Len(sw) + 4].data, lastCall.buffer, n)

\* C4 witness: a 2 x 2 rectangle has been drawn from a buffer of exactly
\* four pixels, as one burst of eight bytes.
C4_Witness ==
    /\ Did("drawPixelBuffer")
    /\ lastCall.x2 = lastCall.x1 + 1 /\ lastCall.y2 = lastCall.y1 + 1
    /\ Len(lastCall.buffer) = 4
    /\ Count(trace, "transferBytes") = 1
    /\ trace[Len(trace) - 2].data =
           <<\hDC, \hFE, \hDD, \hFF, \hDE, \h00, \hDF, \h01>>

\* C5: clearScreen(c) makes exactly the calls of one
\* setWindow(0, 0, width-1, height-1) followed by exactly height gated bulk
\* writes, each of width * 2 bytes holding only the 16-bit value c, and
\* nothing else.
C5_ClearIsWindowThenHeightLines ==
    Did("clearScreen") =>
        LET sw == setWindow(cfg, 0, 0, cfg.width - 1, cfg.height - 1)
            line1 == [j \in 1..cfg.width |-> lastCall.v]
        IN  /\ Len(trace) = Len(sw) + 6 * cfg.height
            /\ SubSeq(trace, 1, Len(sw)) = sw
            /\ Count(trace, "transferBytes") = cfg.height
            /\ Count(trace, "transfer") = Count(sw, "transfer")
            /\ \A line \in 1..cfg.height :
                   LET i == Len(sw) + 6 * (line - 1) + 4
                   IN  /\ Gated(trace, i)
                       /\ trace[i - 1] = DigitalWrite("dc", "HIGH")
                       /\ trace[i].k = "transferBytes"
                       /\ trace[i].v = cfg.width * 2
                       /\ BytesOfPixels(trace[i].data, line1, cfg.width)

\* C5 witness: the default 172 x 320 panel has been cleared to 0x1234 with
\* 320 bulk writes.
C5_Witness ==
    /\ Did("clearScreen") /\ cfg = DefaultConfig /\ lastCall.v = \h1234
    /\ Count(trace, "transferBytes") = 320
    /\ trace[Len(trace) - 2].v = 344
    /\ trace[Len(trace) - 2].data[343] = \h34
    /\ trace[Len(trace) - 2].data[344] = \h12

\* The duties a trace writes to the backlight PWM, in order.
LedcWrites(tr) ==
    LET W == SelectSeq(tr, LAMBDA e : e.k = "ledcWrite")
    IN  [i \in 1..Len(W) |-> W[i].v]
\* The duties an ESP-IDF operation hands to ledc_set_duty, in order.
SetDutyCalls(calls) ==
    LET W == SelectSeq(calls, LAMBDA c : c.fn = "ledc_set_duty")
    IN  [i \in 1..Len(W) |-> W[i].arg]

\* C6: for a brightness b in 101..255, setBacklight(b) writes the same PWM
\* duty as setBacklight(100), in ST7789Display::setBacklight and in
\* st7789_backlight_set on an initialized device, where a successful call
\* also records current_brightness = 100.
C6_BacklightClamps ==
    /\ (Did("setBacklight") /\ lastCall.v > 100) =>
           /\ LedcWrites(trace) = LedcWrites(setBacklight(100))
           /\ ledcDuty = DutyAfter(-1, setBacklight(100))
    /\ (idfLast.name = "st7789_backlight_set" /\ idfLast.brightness > 100
            /\ dev.is_initialized) =>
           /\ SetDutyCalls(idfCalls) = <<brightness_to_duty(100)>>
           /\ idfLast.ret = "ESP_OK" =>
                  /\ dev.backlight.current_brightness = 100
                  /\ idfDuty.active = brightness_to_duty(100)

\* C6 witness: both drivers have been asked for a brightness above 100 and
\* both hold the duty of brightness 100.
C6_Witness ==
    /\ Did("setBacklight") /\ lastCall.v = 255 /\ ledcDuty = 1000
    /\ idfLast = IdfOp("st7789_backlight_set", 150, "ESP_OK")
    /\ dev.is_initialized
    /\ dev.backlight.current_brightness = 100
    /\ idfDuty.active = 8191

C8_SecondBeginIsNoOp ==
    [][(initialized /\ lastCall'.name = "begin") =>
           /\ trace' = <<>>
           /\ ret' = "true"
           /\ UNCHANGED <<cfg, initialized, pinModes, pinLevels, spiDepth, ledcDuty>>]_vars

\* The vendor calls of the last st7789_init that returned an error.
FailedCalls == {i \in 1..Len(idfCalls) : idfCalls[i].res # "ESP_OK"}
AlreadyInstalled(c) ==
    c.fn = "ledc_fade_func_install" /\ c.res = "ESP_ERR_INVALID_STATE"

\* What C9 asks of an st7789_init in which call i returned an error.
FatalAt(i) ==
    /\ idfLast.ret # "ESP_OK"
    /\ i = Len(idfCalls)
    /\ \A j \in 1..Len(idfCalls) : \A k \in 1..Len(idfCalls) :
           idfCalls[j].fn = idfCalls[k].fn => j = k
    /\ ~dev.is_initialized

\* C9 as stated: if any panel-IO, panel, GPIO or LEDC call made during
\* st7789_init returns an error, st7789_init returns an error, makes no
\* later call, does not repeat the failed call and leaves is_initialized
\* false.  (Fails for ledc_fade_func_install returning
\* ESP_ERR_INVALID_STATE.)
C9_AnyVendorErrorIsFatal ==
    idfLast.name = "st7789_init" => \A i \in FailedCalls : FatalAt(i)

\* C9 amended: the same for every error except ledc_fade_func_install
\* returning ESP_ERR_INVALID_STATE, which st7789_init takes to mean "already
\* installed" and treats as success; and an st7789_init in which no other
\* error occurred returns ESP_OK.
C9_VendorErrorIsFatalUnlessAlreadyInstalled ==
    idfLast.name = "st7789_init" =>
        /\ \A i \in FailedCalls : ~AlreadyInstalled(idfCalls[i]) => FatalAt(i)
        /\ (\A i \in FailedCalls : AlreadyInstalled(idfCalls[i])) =>
               (idfLast.ret = "ESP_OK" /\ dev.is_initialized)

\* C9 witness: st7789_init has stopped at a failing ledc_timer_config, its
\* eighth call, and has reported the failure.
C9_Witness ==
    /\ idfLast = IdfOp("st7789_init", 0, "ESP_FAIL")
    /\ Len(idfCalls) = 8
    /\ idfCalls[8] = VCall("ledc_timer_config", 0, "ESP_FAIL")
    /\ ~dev.is_initialized
    /\ ~dev.backlight.is_initialized

\* C10 as stated: whenever a public operation of ST7789Display (begin,
\* setWindow, drawPixelBuffer, clearScreen, setBacklight) has returned,
\* chip-select is high and every SPI transaction the driver began has been
\* ended.  (Fails for setBacklight on a display that was never begun: it
\* makes no GPIO call, and chip-select is still the unconfigured input it
\* was at construction.)
C10_ChipSelectHighOnReturn ==
    ~Did("none") =>
        /\ spiDepth = 0
        /\ Count(trace, "beginTransaction") = Count(trace, "endTransaction")
        /\ pinLevels["cs"] = "HIGH"

\* C10 amended: whenever a public operation has returned, every SPI
\* transaction it began has been ended; begin, setWindow, drawPixelBuffer
\* and clearScreen have written chip-select high last, and setBacklight,
\* which makes no GPIO or SPI call, leaves chip-select exactly as it found
\* it: high after any of the other operations, an unconfigured input
\* before them.
C10_BusReleasedOnReturn ==
    ~Did("none") =>
        /\ spiDepth = 0
        /\ Count(trace, "beginTransaction") = Count(trace, "endTransaction")
        /\ Did("setBacklight") =>
               /\ Count(trace, "digitalWrite") = 0
               /\ Count(trace, "beginTransaction") = 0
               /\ pinLevels["cs"] = "HIGH" \/ pinModes["cs"] = "INPUT"
        /\ ~Did("setBacklight") =>
               /\ pinLevels["cs"] = "HIGH"
               /\ LastIndex(trace, "digitalWrite", "cs") > 0
               /\ trace[LastIndex(trace, "digitalWrite", "cs")].lvl = "HIGH"

\* C10 witness: begin(), whose reset pulls chip-select low outside any
\* transaction, has returned with the pin an output and high again.
C10_Witness ==
    /\ Did("begin") /\ initialized
    /\ pinModes["cs"] = "OUTPUT" /\ pinLevels["cs"] = "HIGH"
    /\ spiDepth = 0
    /\ Count(trace, "beginTransaction") > 0
    /\ \E i \in 1..Len(trace) :
           /\ trace[i] = DigitalWrite("cs", "LOW")
           /\ (i = 1 \/ trace[i - 1] # BeginTransaction)

\* min(b, BRIGHTNESS_MAX), the brightness a request for b stands for.
Clamped(b) == IF b > BRIGHTNESS_MAX THEN BRIGHTNESS_MAX ELSE b

\* C11: after st7789_init has returned ESP_OK on a device created with
\* initial_brightness = b, st7789_backlight_get returns min(b, 100) and the
\* LEDC duty is brightness_to_duty(min(b, 100)).  (Fails: st7789_init calls
\* st7789_backlight_set while is_initialized is still false, so the call
\* is refused with ESP_ERR_INVALID_STATE, which is only logged.)
C11_InitialBrightnessApplied ==
    (idfLast = IdfOp("st7789_init", 0, "ESP_OK") /\ Len(idfCalls) > 0) =>
        /\ st7789_backlight_get(dev) = Clamped(dev.config.initial_brightness)
        /\ idfDuty.active = brightness_to_duty(Clamped(dev.config.initial_brightness))

\* The LVGL rotation that a configured rotation of r degrees stands for.
LvRotationOf(r) ==
    CASE r = 90 -> "LV_DISP_ROT_90"
      [] r = 180 -> "LV_DISP_ROT_180"
      [] r = 270 -> "LV_DISP_ROT_270"
      [] OTHER -> "LV_DISP_ROT_NONE"
LvDid(name) == lvLast.name = name
LvCount(calls, fn) == Len(SelectSeq(calls, LAMBDA c : c.fn = fn))

\* C12: after an lvgl_driver_init that ran and returned ESP_OK on a driver
\* created with rotation r in {90, 180, 270} (stored in the uint8_t
\* config.rotation), lv_disp_set_rotation has been called with the LVGL
\* rotation of r and the registered display is rotated so.  (Fails:
\* lvgl_driver_init calls lvgl_driver_set_rotation while is_initialized is
\* still false, so it is refused with ESP_ERR_INVALID_STATE, unnoticed.)
C12_InitialRotationApplied ==
    \A r \in {90, 180, 270} :
        (LvDid("lvgl_driver_init") /\ lvLast.ret = "ESP_OK" /\ lvCalls # <<>>
             /\ lvDrv.config.rotation = U8(r)) =>
            /\ \E i \in 1..Len(lvCalls) :
                   /\ lvCalls[i].fn = "lv_disp_set_rotation"
                   /\ lvCalls[i].args = <<LvRotationOf(r)>>
            /\ lvDrv.rotated = LvRotationOf(r)

\* C13: showImage returns true exactly when the image was opened, is at
\* most MAX_IMAGE_WIDTH wide and was decoded without error; it returns false
\* on an open failure, on a too wide image and on a decode error.  (Fails:
\* the result of decode is never read.)
C13_ShowImageReportsFailure ==
    Did("showImage") =>
        (ret = "true" <=> /\ img.png.open = "PNG_SUCCESS"
                          /\ img.png.width <= MAX_IMAGE_WIDTH
                          /\ img.png.result = "PNG_SUCCESS")

\* C14: lvgl_flush_callback called with a non-NULL display driver calls
\* lv_disp_flush_ready exactly once, as its last call, on every path; on the
\* normal path after exactly one esp_lcd_panel_draw_bitmap.  (Fails: with
\* drv->user_data NULL it returns without signalling.)
C14_FlushAlwaysSignalsReady ==
    (LvDid("lvgl_flush_callback") /\ ~lvLast.a.null) =>
        /\ LvCount(lvCalls, "lv_disp_flush_ready") = 1
        /\ lvCalls[Len(lvCalls)].fn = "lv_disp_flush_ready"
        /\ (lvLast.a.user_data # "NULL" /\ lvLast.a.lcd # "NULL" /\ lvLast.a.panel_handle) =>
               /\ Len(lvCalls) = 2
               /\ lvCalls[1].fn = "esp_lcd_panel_draw_bitmap"

\* C15: setWindow, drawPixelBuffer and clearScreen leave the initialized
\* flag, the backlight duty and the configuration unchanged; the flag
\* changes only in begin(), the duty only in begin() and setBacklight(), and
\* no operation changes the configuration.
C15_DrawingLeavesPanelStateAlone ==
    [][/\ cfg' = cfg
       /\ initialized' # initialized => lastCall'.name = "begin"
       /\ ledcDuty' # ledcDuty => lastCall'.name \in {"begin", "setBacklight"}
       /\ lastCall'.name \in {"setWindow", "drawPixelBuffer", "clearScreen"} =>
              /\ initialized' = initialized
              /\ ledcDuty' = ledcDuty
              /\ Count(trace', "ledcWrite") = 0
              /\ Count(trace', "ledcAttach") = 0]_vars

\* C15 witness: a begun display whose backlight was set to 50 has been
\* cleared and still has duty 500.
C15_Witness ==
    /\ Did("clearScreen") /\ initialized /\ ledcDuty = 500
    /\ Count(trace, "transferBytes") = cfg.height

\* C16: over lvgl_driver_create, one lvgl_driver_init (succeeding or failing
\* at any step) and a final lvgl_driver_destroy, every buffer and timer the
\* driver acquired has been released exactly once.  (Fails: a failed
\* lvgl_driver_init frees buffer 1, or deletes the timer, and keeps the
\* pointer, which lvgl_driver_destroy releases again.)
C16_ResourcesReleasedOnce ==
    (LvDid("lvgl_driver_destroy") /\ lvInits = 1) =>
        \A res \in Resources : \A k \in 1..Len(lvHeap[res]) : lvHeap[res][k] = 1

\* C17: brightness_to_duty is non-decreasing over 0..100, maps 0 to 0 and
\* 100 to ST7789_BL_MAX_DUTY, and stays within 0..ST7789_BL_MAX_DUTY for
\* every brightness in 0..255 (the 16-bit subtraction never wraps); the duty
\* a successful st7789_backlight_set latches is that value.
C17_BrightnessToDutyMonotone ==
    /\ \A a \in 0..BRIGHTNESS_MAX : \A b \in a..BRIGHTNESS_MAX :
           brightness_to_duty(a) <= brightness_to_duty(b)
    /\ brightness_to_duty(0) = 0
    /\ brightness_to_duty(BRIGHTNESS_MAX) = ST7789_BL_MAX_DUTY
    /\ \A b \in 0..255 : brightness_to_duty(b) \in 0..ST7789_BL_MAX_DUTY
    /\ (idfLast.name = "st7789_backlight_set" /\ idfLast.ret = "ESP_OK") =>
           /\ idfDuty.active = brightness_to_duty(idfLast.brightness)
           /\ idfDuty.active \in 0..ST7789_BL_MAX_DUTY

\* C17 witness: brightness 1, the lowest non-zero step, has been set and
\* the latched duty is 8191 - 81 * 99 = 172.
C17_Witness ==
    /\ idfLast = IdfOp("st7789_backlight_set", 1, "ESP_OK")
    /\ idfDuty.active = 172

\* C18: every setWindow emits exactly command 0x2A, four parameter bytes,
\* command 0x2B, four parameter bytes and command 0x2C, last; commands go
\* out with data/command low, parameters with it high, each byte in its own
\* chip-select-low transaction, and the operation makes no other call.
C18_SetWindowFraming ==
    Did("setWindow") =>
        LET B == Bus(trace)
        IN  /\ Len(B) = 11
            /\ IsCommand(B[1], \h2A)
            /\ \A j \in 2..5 : IsParam(B[j])
            /\ IsCommand(B[6], \h2B)
            /\ \A j \in 7..10 : IsParam(B[j])
            /\ IsCommand(B[11], \h2C)
            /\ \A i \in 1..Len(trace) : IsTransfer(trace[i]) => Gated(trace, i)
            /\ Len(trace) = 11 * 6

\* C18 witness: setWindow(10, 20, 50, 60) on the default configuration has
\* put its eleven bytes on the bus.
C18_Witness ==
    /\ Did("setWindow") /\ cfg = DefaultConfig
    /\ lastCall.x1 = 10 /\ lastCall.y2 = 60
    /\ Len(Bus(trace)) = 11
    /\ Bus(trace)[11].v = \h2C /\ Bus(trace)[11].dc = "LOW"
    /\ Bus(trace)[3].v = 44 /\ Bus(trace)[3].dc = "HIGH"

\* The least element of a non-empty set of indices, 0 for the empty set.
FirstIn(S) == IF S = {} THEN 0 ELSE CHOOSE i \in S : \A j \in S : i <= j
LastIn(S) == IF S = {} THEN 0 ELSE CHOOSE i \in S : \A j \in S : j <= i
\* The milliseconds of delay between calls i and j of a trace.
RECURSIVE DelaySum(_, _, _)
DelaySum(tr, i, j) ==
    IF i > j THEN 0
    ELSE (IF tr[i].k = "delay" THEN tr[i].v ELSE 0) + DelaySum(tr, i + 1, j)
Where(tr, e) == {i \in 1..Len(tr) : tr[i] = e}
Transfers(tr) == {i \in 1..Len(tr) : IsTransfer(tr[i])}
Commands(tr) ==
    {i \in Transfers(tr) : tr[i].k = "transfer" /\ LevelBefore(tr, i, "dc") = "LOW"}

\* C19: in begin(), before any byte is transferred: chip-select is driven
\* low, then reset is driven low and held for at least 50 ms, then reset is
\* driven high, then at least 50 ms pass; the three control pins are made
\* outputs and the backlight PWM is attached before chip-select goes low.
C19_ResetOrder ==
    Did("begin") =>
        LET csLow == FirstIn(Where(trace, DigitalWrite("cs", "LOW")))
            rstLow == FirstIn(Where(trace, DigitalWrite("rst", "LOW")))
            rstHigh == FirstIn(Where(trace, DigitalWrite("rst", "HIGH")))
            firstByte == FirstIn(Transfers(trace))
        IN  /\ 0 < csLow /\ csLow < rstLow /\ rstLow < rstHigh /\ rstHigh < firstByte
            /\ \A i \in (rstLow + 1)..(rstHigh - 1) : ~IsWrite(trace[i], "rst")
            /\ \A i \in (rstHigh + 1)..firstByte : ~IsWrite(trace[i], "rst")
            /\ DelaySum(trace, rstLow, rstHigh) >= 50
            /\ DelaySum(trace, rstHigh, firstByte) >= 50
            /\ \A p \in Pins : \E i \in 1..(csLow - 1) : trace[i] = PinMode(p)
            /\ \E i \in 1..(csLow - 1) : trace[i].k = "ledcAttach"
            /\ \A i \in csLow..Len(trace) : trace[i].k \notin {"pinMode", "ledcAttach"}

\* C19 witness: begin() has run its reset pulse, calls 7 to 12 of its trace,
\* and gone on to send the first command.
C19_Witness ==
    /\ Did("begin") /\ initialized
    /\ trace[7] = DigitalWrite("cs", "LOW")
    /\ trace[9] = DigitalWrite("rst", "LOW")
    /\ trace[10] = Delay(50)
    /\ trace[11] = DigitalWrite("rst", "HIGH")
    /\ FirstIn(Transfers(trace)) > 12

\* C20: in begin(), every sleep-out command (0x11) is followed by at least
\* 120 ms of delay before the next byte is transferred; the display-on
\* command (0x29) is sent once, directly after a sleep-out and its delay,
\* and is the last command and the last byte of the sequence.
C20_SleepOutDelays ==
    Did("begin") =>
        LET T == Transfers(trace)
            C == Commands(trace)
            SleepOuts == {i \in C : trace[i].v = \h11}
            DisplayOns == {i \in C : trace[i].v = \h29}
        IN  /\ SleepOuts # {}
            /\ \A i \in SleepOuts :
                   LET next == FirstIn({j \in T : j > i})
                   IN  next > 0 /\ DelaySum(trace, i, next) >= 120
            /\ Cardinality(DisplayOns) = 1
            /\ \A i \in DisplayOns :
                   /\ i = LastIn(C) /\ i = LastIn(T)
                   /\ LastIn({j \in T : j < i}) \in SleepOuts
                   /\ DelaySum(trace, LastIn({j \in T : j < i}), i) >= 120

\* C20 witness: begin() has sent sleep-out twice and display-on last.
C20_Witness ==
    /\ Did("begin") /\ initialized
    /\ Cardinality({i \in Commands(trace) : trace[i].v = \h11}) = 2
    /\ trace[LastIn(Transfers(trace))].v = \h29
    /\ Count(trace, "delay") = 5

\* Call i of the trace lies inside a transaction: some beginTransaction
\* before it has not been ended yet.
InTransaction(tr, i) ==
    \E d \in 1..(i - 1) :
        /\ tr[i - d] = BeginTransaction
        /\ \A k \in (i - d + 1)..i : tr[k] # EndTransaction
\* Chip-select, written low by call i, is written high again before the
\* transaction around call i ends.
HeldInTransaction(tr, i) ==
    /\ InTransaction(tr, i)
    /\ \E d \in 1..(Len(tr) - i) :
           /\ tr[i + d] = DigitalWrite("cs", "HIGH")
           /\ \A k \in (i + 1)..(i + d - 1) :
                  tr[k] # EndTransaction /\ ~IsWrite(tr[k], "cs")

\* C21 as stated: from begin() onward chip-select is low only between a
\* beginTransaction and its endTransaction and high at all other times.
\* (Fails inside begin(): hardwareReset writes chip-select low with no
\* transaction open and leaves it low through the reset delays.)
C21_ChipSelectLowOnlyInTransaction ==
    [][(initialized \/ lastCall'.name = "begin") =>
           /\ \A i \in Where(trace', DigitalWrite("cs", "LOW")) :
                  HeldInTransaction(trace', i)
           /\ pinLevels'["cs"] = "HIGH"
           /\ spiDepth' = 0]_vars

\* C21 amended: from begin() onward chip-select is low outside an SPI
\* transaction only inside begin(), before its first transaction begins
\* (the hardware reset asserts it); every later write of chip-select low is
\* made inside a transaction that ends only after chip-select is high
\* again, every operation returns with chip-select high and no transaction
\* open, and every operation other than begin() starts that way.
C21_ChipSelectLowOnlyInTransactionOrReset ==
    [][(initialized \/ lastCall'.name = "begin") =>
           /\ \A i \in Where(trace', DigitalWrite("cs", "LOW")) :
                  \/ HeldInTransaction(trace', i)
                  \/ /\ lastCall'.name = "begin"
                     /\ i < FirstIn(Where(trace', BeginTransaction))
           /\ pinLevels'["cs"] = "HIGH"
           /\ spiDepth' = 0
           /\ lastCall'.name # "begin" => (pinLevels["cs"] = "HIGH" /\ spiDepth = 0)]_vars

\* C21 witness: a begun display has been cleared: chip-select went low
\* once per byte of the window and once per line, and is high again.
C21_Witness ==
    /\ Did("clearScreen") /\ initialized
    /\ pinModes["cs"] = "OUTPUT" /\ pinLevels["cs"] = "HIGH"
    /\ Cardinality(Where(trace, DigitalWrite("cs", "LOW"))) = 11 + cfg.height
    /\ \A i \in Where(trace, DigitalWrite("cs", "LOW")) : HeldInTransaction(trace, i)

\* C22: every ST7789Display, default-constructed or built from a caller's
\* ST7789Config, has offset_x + width <= 240 and offset_y + height <= 320;
\* a configuration outside that range yields no usable driver.  (Fails: the
\* constructor copies the members without looking at them, and begin()
\* initializes the display and returns true whatever they are.)
C22_ConfigWithinNativeRange ==
    /\ ValidConfig(cfg)
    /\ initialized => ValidConfig(cfg)

\* The rectangles the last showImage handed to drawPixelBuffer, one per
\* decoded line.
ImageRects == {pngDrawRect(y, img.png.width) : y \in 0..(img.lines - 1)}

\* C23: every rectangle pngDraw passes to drawPixelBuffer, for a PNG that
\* showImage accepted, has x1 <= x2, y1 <= y2, x2 < width and y2 < height of
\* the display.  (Fails: showImage checks the image width only; a PNG
\* taller than the panel is drawn line by line past the last row.)
C23_ImageRectsWithinPanel ==
    Did("showImage") =>
        \A r \in ImageRects :
            /\ r[1] <= r[3] /\ r[2] <= r[4]
            /\ r[3] < cfg.width /\ r[4] < cfg.height

\* The bulk writes of a trace, in order.
Bursts(tr) == SelectSeq(tr, LAMBDA e : e.k = "transferBytes")

\* C24: pngDraw runs only for images at most MAX_IMAGE_WIDTH wide; for every
\* decoded line it handles exactly the image width in pixels, which is the
\* size (x2-x1+1)*(y2-y1+1) of the rectangle it passes to drawPixelBuffer
\* and at most the 172 elements of lineBuffer, and the one bulk write of
\* that line carries those pixels, two bytes each, low byte first.
C24_LineBufferWithinBounds ==
    Did("showImage") =>
        /\ img.lines > 0 => img.png.width <= MAX_IMAGE_WIDTH
        /\ \A r \in ImageRects :
               /\ (r[3] - r[1] + 1) * (r[4] - r[2] + 1) = img.png.width
               /\ (r[3] - r[1] + 1) * (r[4] - r[2] + 1) <= MAX_IMAGE_WIDTH
        /\ Len(Bursts(trace)) = img.lines
        /\ \A n \in 1..img.lines :
               /\ Bursts(trace)[n].v = 2 * img.png.width
               /\ Bursts(trace)[n].data =
                      BufferBytes([i \in 1..img.png.width |-> PngPixel(i - 1, n - 1)],
                                  2 * img.png.width)

\* C24 witness: a PNG exactly MAX_IMAGE_WIDTH wide has been decoded, two
\* lines or more, each with one bulk write of 344 bytes.
C24_Witness ==
    /\ Did("showImage") /\ ret = "true"
    /\ img.png.width = MAX_IMAGE_WIDTH /\ img.lines >= 2
    /\ Len(Bursts(trace)) = img.lines
    /\ Bursts(trace)[2].v = 344


\* C25: in the ESP-IDF flush the panel offsets follow the rotation: at 0 and
\* 180 degrees offset_x is added to the x coordinates and offset_y to the y
\* coordinates, at 90 and 270 degrees offset_y is added to x and offset_x to
\* y; the end coordinates passed to the panel are the inclusive ends plus 1.
C25_FlushOffsetsFollowRotation ==
    LvDid("lvgl_flush_callback") =>
        \A i \in 1..Len(lvCalls) :
            lvCalls[i].fn = "esp_lcd_panel_draw_bitmap" =>
                LET a == lvLast.a
                    area == lvLast.area
                    swapped == a.rotated \in {"LV_DISP_ROT_90", "LV_DISP_ROT_270"}
                    ox == IF swapped THEN a.offset_y ELSE a.offset_x
                    oy == IF swapped THEN a.offset_x ELSE a.offset_y
                IN  lvCalls[i].args = << area[1] + ox, area[2] + oy,
                                         area[3] + ox + 1, area[4] + oy + 1 >>


\* C26: lvgl_driver_set_rotation on an initialized driver returns ESP_OK
\* exactly when the rotation is 0, 90, 180 or 270, and then config.rotation
\* equals the rotation asked for; for any other rotation it returns
\* ESP_ERR_INVALID_ARG, makes no call to the display and leaves the driver,
\* config.rotation included, as it was.
C26_SetRotationStoresRotation ==
    [][(lvLast'.name = "lvgl_driver_set_rotation" /\ lvDrv.is_initialized) =>
           IF lvLast'.rotation \in {0, 90, 180, 270}
           THEN /\ lvLast'.ret = "ESP_OK"
                /\ lvDrv'.config.rotation = lvLast'.rotation
                /\ lvDrv'.rotated = LvRotationOf(lvLast'.rotation)
           ELSE /\ lvLast'.ret = "ESP_ERR_INVALID_ARG"
                /\ lvDrv' = lvDrv
                /\ lvCalls' = <<>>]_vars


\* A scan function has returned to its task.
ScanReturned(task) == task.pc \in {"returned", "deleted"}
\* A scan has been stopped and its own flag set.
ScanOver(task) == task.pc \in {"flagged", "returned", "deleted"}

\* C27: in every interleaving of the WiFi task and the BLE task, once both
\* WIFI_Scan and BLE_Scan have returned Scan_finish is true; once true it
\* stays true; and it is never true unless both scans were stopped and
\* both WiFi_Scan_Finish and BLE_Scan_Finish are set.
C27_ScanFinishWhenBothDone ==
    /\ [](ScanReturned(wifiTask) /\ ScanReturned(bleTask) => Scan_finish)
    /\ [](Scan_finish => /\ ScanOver(wifiTask) /\ ScanOver(bleTask)
                         /\ WiFi_Scan_Finish /\ BLE_Scan_Finish)
    /\ [][Scan_finish => Scan_finish']_vars

\* C27 witness: both tasks ran to their end, the WiFi task last, and
\* Scan_finish is set.
C27_Witness ==
    /\ wifiTask.pc = "deleted" /\ bleTask.pc = "deleted"
    /\ Scan_finish /\ WIFI_NUM = 7 /\ BLE_NUM = 2
    /\ uiTimer.finish

\* C28: whenever the UI timer callback has seen Scan_finish true, the
\* counters it then displays are final: the WiFi count is the access-point
\* count the WiFi scan returned and the BLE count is the number of devices
\* the BLE scan counted.
C28_ShownCountsAreFinal ==
    (uiTimer.pc = "idle" /\ uiTimer.finish) =>
        /\ uiTimer.wifi = wifiTask.ap_count
        /\ uiTimer.ble = BLE_NUM

\* C29: BLE_NUM is the number of distinct device addresses reported so far.
C29_EachDeviceCountedOnce ==
    BLE_NUM = Cardinality(bleAir.reported)

\* The effect tasks that exist: created and not deleted.
EffectTasks == {t \in 1..Len(rgbTasks) : rgbTasks[t].pc # "deleted"}

\* C30: at most one effect task exists at a time and vTaskDelete is called
\* at most once on each created task.
C30_OneEffectTaskDeletedOnce ==
    /\ Cardinality(EffectTasks) <= 1
    /\ \A t \in 1..Len(rgbTasks) : rgbTasks[t].deletes <= 1

============================================================================
